---- MODULE Spec2Model ----
(***************************************************************************)
(* A model of the Image_Scanner repository: the model-output parser        *)
(* (utils/visualization_utils.py, parse_gemini_json_output), the overlay   *)
(* renderers (generate_point_html, generate_2d_box_html,                   *)
(* generate_3d_box_html, generate_segmentation_html) and the VLM client    *)
(* (utils/gemini_utils.py).                                                *)
(*                                                                         *)
(* Text is a sequence of one-character strings.  A JSON value is a tagged  *)
(* record; a JSON number is kept as an integer count of thousandths, so    *)
(* that 0.5 and 250 are both exact; a JSON object is a function from key   *)
(* texts to values, so that equality ignores key order as Python's dict    *)
(* equality does.                                                          *)
(***************************************************************************)
EXTENDS Integers, Sequences, FiniteSets, TLC

VARIABLES
    json_output_str,  \* parser: the argument of parse_gemini_json_output
    origin,           \* parser: the JSON value the text was dumped from, or NoValue
    parse_pc,         \* parser: "call" before the call, "done" after it
    parse_out,        \* parser: the outcome of the call
    render_in,        \* renderers: the call [fn, data, width, height]
    render_pc,        \* renderers: "call" / "done"
    render_out,       \* renderers: the outcome [raised, elements, details]
    api_key,          \* VLM client: os.getenv("GEMINI_API_KEY")
    gemini_client,    \* VLM client: the module global _GEMINI_CLIENT
    vlm_in,           \* VLM client: what the collaborators will do in this call
    vlm_pc,           \* VLM client: position inside generate_content_with_gemini
    vlm_out,          \* VLM client: the outcome [raised, text]
    language,         \* app: st.session_state.language
    uploaded_zip_file,\* app: the upload, [kind |-> "none"] when there is none
    prompt_text,      \* app: the prompt of the text area
    temp_dir,         \* app: TEMP_DIR on disk, [exists, files]
    run_pc,           \* app: position in the handler of the classify button
    image_files,      \* app: the image paths found under TEMP_DIR
    loop_i,           \* app: the number of images the loop has started
    results_data,     \* app: the result rows
    image_files_processed_paths,  \* app: the paths whose VLM call returned
    shown             \* app: the messages put on the page, in order

vars == <<json_output_str, origin, parse_pc, parse_out,
          render_in, render_pc, render_out,
          api_key, gemini_client, vlm_in, vlm_pc, vlm_out,
          language, uploaded_zip_file, prompt_text, temp_dir, run_pc, image_files,
          loop_i, results_data, image_files_processed_paths, shown>>

parser_vars == <<json_output_str, origin, parse_pc, parse_out>>
render_vars == <<render_in, render_pc, render_out>>
vlm_vars == <<api_key, gemini_client, vlm_in, vlm_pc, vlm_out>>
batch_vars == <<language, uploaded_zip_file, prompt_text, temp_dir, run_pc, image_files,
                loop_i, results_data, image_files_processed_paths, shown>>

(***************************************************************************)
(* Text: characters, Python's str methods.                                 *)
(***************************************************************************)
QUOTE == "\""
NL == "\n"
Whitespace == {" ", "\n"}
Digits == {"0", "1", "2", "3", "4", "5", "6", "7", "8", "9"}

DigitVal(c) ==
    CASE c = "0" -> 0 [] c = "1" -> 1 [] c = "2" -> 2 [] c = "3" -> 3
      [] c = "4" -> 4 [] c = "5" -> 5 [] c = "6" -> 6 [] c = "7" -> 7
      [] c = "8" -> 8 [] c = "9" -> 9

DigitChar(d) == <<"0", "1", "2", "3", "4", "5", "6", "7", "8", "9">>[d + 1]

\* s[i:] and s[:j] of Python, with 1-based inclusive bounds
From(s, i) == SubSeq(s, i, Len(s))
Upto(s, j) == SubSeq(s, 1, j)

\* s.startswith(p) at offset i (1-based): the regex engine's literal match
MatchAt(s, i, p) ==
    /\ i >= 1
    /\ i + Len(p) - 1 <= Len(s)
    /\ \A k \in 1..Len(p) : s[i + k - 1] = p[k]

StartsWith(s, p) == MatchAt(s, 1, p)
EndsWith(s, p) == Len(p) <= Len(s) /\ MatchAt(s, Len(s) - Len(p) + 1, p)

\* the first index >= i that holds no whitespace (Len(s)+1 when there is none)
RECURSIVE SkipWs(_, _)
SkipWs(s, i) ==
    IF i <= Len(s) /\ s[i] \in Whitespace THEN SkipWs(s, i + 1) ELSE i

\* the last index <= j that holds no whitespace (0 when there is none)
RECURSIVE SkipWsBack(_, _)
SkipWsBack(s, j) ==
    IF j >= 1 /\ s[j] \in Whitespace THEN SkipWsBack(s, j - 1) ELSE j

\* str.strip()
Strip(s) == SubSeq(s, SkipWs(s, 1), SkipWsBack(s, Len(s)))

\* the first index >= i where p occurs in s, 0 when it does not: str.find
Find(s, p, i) ==
    LET last == Len(s) - Len(p) + 1
    IN  IF \E k \in i..last : MatchAt(s, k, p)
        THEN CHOOSE k \in i..last :
                /\ MatchAt(s, k, p)
                /\ \A j \in i..(k - 1) : ~MatchAt(s, j, p)
        ELSE 0

\* the last index <= j where the character c occurs in s, 0 when it does not
FindLastChar(s, c, j) ==
    IF \E k \in 1..j : s[k] = c
    THEN CHOOSE k \in 1..j : s[k] = c /\ \A m \in (k + 1)..j : s[m] # c
    ELSE 0

\* the first index >= i that holds no digit: the end of a greedy \d+
RECURSIVE SkipDigits(_, _)
SkipDigits(s, i) ==
    IF i <= Len(s) /\ s[i] \in Digits THEN SkipDigits(s, i + 1) ELSE i

\* int(digits)
RECURSIVE DigitsToInt(_)
DigitsToInt(ds) ==
    IF Len(ds) = 0 THEN 0
    ELSE 10 * DigitsToInt(Upto(ds, Len(ds) - 1)) + DigitVal(ds[Len(ds)])

\* str(n), n >= 0
RECURSIVE IntToDigits(_)
IntToDigits(n) ==
    IF n < 10 THEN <<DigitChar(n)>>
    ELSE Append(IntToDigits(n \div 10), DigitChar(n % 10))

(***************************************************************************)
(* JSON values, json.loads and json.dumps.                                 *)
(***************************************************************************)
Null == [t |-> "null"]
Bool(b) == [t |-> "bool", b |-> b]
Num(n) == [t |-> "num", n |-> n]          \* n counts thousandths
IntNum(k) == Num(k * 1000)
Str(s) == [t |-> "str", s |-> s]
List(l) == [t |-> "list", l |-> l]
Obj(o) == [t |-> "obj", o |-> o]
EmptyObj == Obj(<<>>)

\* isinstance(v, list), isinstance(v, dict), isinstance(v, str), a number
IsList(v) == v.t = "list"
IsDict(v) == v.t = "obj"
IsStr(v) == v.t = "str"
IsNum(v) == v.t = "num"
\* key in dict
HasKey(v, k) == k \in DOMAIN v.o

\* A decoding step: ok with the value and the index after it, or a failure
\* (json.JSONDecodeError).
Decoded(v, pos) == [ok |-> TRUE, v |-> v, pos |-> pos]
DecodeError == [ok |-> FALSE, v |-> Null, pos |-> 0]

\* the index of the quote closing a string whose content starts at i; 0 when
\* the string is unterminated or holds a control character (strict mode)
StringEnd(s, i) ==
    LET stops == {k \in i..Len(s) : s[k] \in {QUOTE, NL}}
    IN  IF stops = {} THEN 0
        ELSE LET j == CHOOSE k \in stops : \A m \in stops : k <= m
             IN  IF s[j] = QUOTE THEN j ELSE 0

\* json.decoder.scanstring: s[i] is the opening quote
ScanString(s, i) ==
    LET j == StringEnd(s, i + 1)
    IN  IF j = 0 THEN DecodeError
        ELSE Decoded(Str(SubSeq(s, i + 1, j - 1)), j + 1)

\* the first three digits of a fraction, as thousandths
FracMilli(ds) ==
    LET d(k) == IF k <= Len(ds) THEN DigitVal(ds[k]) ELSE 0
    IN  100 * d(1) + 10 * d(2) + d(3)

\* json.scanner NUMBER_RE at index i: an optional minus, 0 or a digit string
\* that does not start with 0, and an optional fraction
ScanNumber(s, i) ==
    LET neg == s[i] = "-"
        k == IF neg THEN i + 1 ELSE i
    IN  IF k > Len(s) \/ s[k] \notin Digits THEN DecodeError
        ELSE
          LET intEnd == IF s[k] = "0" THEN k + 1 ELSE SkipDigits(s, k)
              hasFrac == /\ intEnd + 1 <= Len(s)
                         /\ s[intEnd] = "."
                         /\ s[intEnd + 1] \in Digits
              fracEnd == IF hasFrac THEN SkipDigits(s, intEnd + 1) ELSE intEnd
              whole == DigitsToInt(SubSeq(s, k, intEnd - 1))
              frac == IF hasFrac
                      THEN FracMilli(SubSeq(s, intEnd + 1, fracEnd - 1))
                      ELSE 0
              mag == 1000 * whole + frac
          IN  Decoded(Num(IF neg THEN 0 - mag ELSE mag), fracEnd)

RECURSIVE ScanOnce(_, _), ParseArray(_, _, _), ParseObject(_, _, _)

\* json.decoder.JSONArray's loop: i is the index of the next element
ParseArray(s, i, acc) ==
    LET r == ScanOnce(s, i)
    IN  IF ~r.ok THEN DecodeError
        ELSE
          LET k == SkipWs(s, r.pos)
          IN  IF k > Len(s) THEN DecodeError
              ELSE IF s[k] = "]" THEN Decoded(List(Append(acc, r.v)), k + 1)
              ELSE IF s[k] = "," THEN ParseArray(s, SkipWs(s, k + 1), Append(acc, r.v))
              ELSE DecodeError

\* json.decoder.JSONObject's loop: i is the index of the next key's quote
ParseObject(s, i, acc) ==
    IF i > Len(s) \/ s[i] # QUOTE THEN DecodeError
    ELSE
      LET key == ScanString(s, i)
      IN  IF ~key.ok THEN DecodeError
          ELSE
            LET c == SkipWs(s, key.pos)
            IN  IF c > Len(s) \/ s[c] # ":" THEN DecodeError
                ELSE
                  LET r == ScanOnce(s, SkipWs(s, c + 1))
                  IN  IF ~r.ok THEN DecodeError
                      ELSE
                        LET k == SkipWs(s, r.pos)
                            \* a repeated key keeps its last value
                            acc2 == (key.v.s :> r.v) @@ acc
                        IN  IF k > Len(s) THEN DecodeError
                            ELSE IF s[k] = "}" THEN Decoded(Obj(acc2), k + 1)
                            ELSE IF s[k] = ","
                              THEN ParseObject(s, SkipWs(s, k + 1), acc2)
                            ELSE DecodeError

\* json.scanner.py_make_scanner._scan_once: the value that starts at index i
ScanOnce(s, i) ==
    IF i > Len(s) THEN DecodeError
    ELSE IF s[i] = QUOTE THEN ScanString(s, i)
    ELSE IF s[i] = "{" THEN
        LET k == SkipWs(s, i + 1)
        IN  IF k <= Len(s) /\ s[k] = "}" THEN Decoded(EmptyObj, k + 1)
            ELSE ParseObject(s, k, <<>>)
    ELSE IF s[i] = "[" THEN
        LET k == SkipWs(s, i + 1)
        IN  IF k <= Len(s) /\ s[k] = "]" THEN Decoded(List(<<>>), k + 1)
            ELSE ParseArray(s, k, <<>>)
    ELSE IF MatchAt(s, i, <<"n", "u", "l", "l">>) THEN Decoded(Null, i + 4)
    ELSE IF MatchAt(s, i, <<"t", "r", "u", "e">>) THEN Decoded(Bool(TRUE), i + 4)
    ELSE IF MatchAt(s, i, <<"f", "a", "l", "s", "e">>) THEN Decoded(Bool(FALSE), i + 5)
    ELSE IF s[i] = "-" \/ s[i] \in Digits THEN ScanNumber(s, i)
    ELSE DecodeError

\* json.loads(s): one value between optional whitespace, nothing after it;
\* [ok |-> FALSE] is json.JSONDecodeError
JsonLoads(s) ==
    LET r == ScanOnce(s, SkipWs(s, 1))
    IN  IF r.ok /\ SkipWs(s, r.pos) = Len(s) + 1
        THEN [ok |-> TRUE, v |-> r.v]
        ELSE [ok |-> FALSE, v |-> Null]

\* the elements of a finite set of texts in a fixed order (a dict's key order)
RECURSIVE SetToSeq(_)
SetToSeq(S) ==
    IF S = {} THEN <<>>
    ELSE LET x == CHOOSE y \in S : TRUE IN <<x>> \o SetToSeq(S \ {x})

\* the digits of a fraction of m thousandths, 0 < m < 1000, as repr prints it
FracDigits(m) ==
    IF m % 100 = 0 THEN <<DigitChar(m \div 100)>>
    ELSE IF m % 10 = 0 THEN <<DigitChar(m \div 100), DigitChar((m \div 10) % 10)>>
    ELSE <<DigitChar(m \div 100), DigitChar((m \div 10) % 10), DigitChar(m % 10)>>

DumpNum(n) ==
    LET mag == IF n < 0 THEN 0 - n ELSE n
        body == IntToDigits(mag \div 1000)
                  \o (IF mag % 1000 = 0 THEN <<>> ELSE <<".">> \o FracDigits(mag % 1000))
    IN  (IF n < 0 THEN <<"-">> ELSE <<>>) \o body

RECURSIVE JsonDump(_), DumpItems(_, _), DumpMembers(_, _, _)

\* the elements of a list from index i on, joined by ", "
DumpItems(l, i) ==
    IF i > Len(l) THEN <<>>
    ELSE JsonDump(l[i]) \o (IF i < Len(l) THEN <<",", " ">> ELSE <<>>) \o DumpItems(l, i + 1)

\* the members of a dict from key index i on, as "key": value joined by ", "
DumpMembers(o, keys, i) ==
    IF i > Len(keys) THEN <<>>
    ELSE <<QUOTE>> \o keys[i] \o <<QUOTE, ":", " ">> \o JsonDump(o[keys[i]])
           \o (IF i < Len(keys) THEN <<",", " ">> ELSE <<>>)
           \o DumpMembers(o, keys, i + 1)

\* json.dumps(v) with the default separators
JsonDump(v) ==
    CASE v.t = "null" -> <<"n", "u", "l", "l">>
      [] v.t = "bool" -> IF v.b THEN <<"t", "r", "u", "e">> ELSE <<"f", "a", "l", "s", "e">>
      [] v.t = "num" -> DumpNum(v.n)
      [] v.t = "str" -> <<QUOTE>> \o v.s \o <<QUOTE>>
      [] v.t = "list" -> <<"[">> \o DumpItems(v.l, 1) \o <<"]">>
      [] v.t = "obj" -> <<"{">> \o DumpMembers(v.o, SetToSeq(DOMAIN v.o), 1) \o <<"}">>

(***************************************************************************)
(* parse_gemini_json_output (utils/visualization_utils.py).                *)
(***************************************************************************)
K_box_2d == <<"b", "o", "x", "_", "2", "d">>
K_box_3d == <<"b", "o", "x", "_", "3", "d">>
K_label == <<"l", "a", "b", "e", "l">>
K_point == <<"p", "o", "i", "n", "t">>
K_mask == <<"m", "a", "s", "k">>
K_ymin == <<"y", "m", "i", "n">>
K_xmin == <<"x", "m", "i", "n">>
K_ymax == <<"y", "m", "a", "x">>
K_xmax == <<"x", "m", "a", "x">>

Quoted(k) == <<QUOTE>> \o k \o <<QUOTE>>
\* the grave accent, the character of a markdown fence (it cannot be written
\* inside a TLA+ string, so the character is named)
GRAVE == "GRAVE"
Backticks == <<GRAVE, GRAVE, GRAVE>>
FenceJson == Backticks \o <<"j", "s", "o", "n">>

\* StripFence with the closing fence left in place
StripFenceKeepsTail(s) ==
    LET c0 == Strip(s)
        c1 == IF StartsWith(c0, FenceJson) THEN From(c0, 8)
              ELSE IF StartsWith(c0, Backticks) THEN From(c0, 4)
              ELSE c0
    IN  Strip(c1)

\* lines 39-53: strip, drop one leading fence opener (three grave accents,
\* with or without "json") and, if the rest ends with three grave accents,
\* those too; strip again
StripFence(s) ==
    LET c0 == Strip(s)
        dropTail(x) == IF EndsWith(x, Backticks) THEN Upto(x, Len(x) - 3) ELSE x
        c1 == IF StartsWith(c0, FenceJson) THEN dropTail(From(c0, 8))
              ELSE IF StartsWith(c0, Backticks) THEN dropTail(From(c0, 4))
              ELSE c0
    IN  Strip(c1)

\* lines 77: all four coordinate keys are in coords
HasCoordKeys(coords) ==
    /\ HasKey(coords, K_ymin) /\ HasKey(coords, K_xmin)
    /\ HasKey(coords, K_ymax) /\ HasKey(coords, K_xmax)

\* the test of lines 68-77: a dict item whose box_2d is a non-empty list that
\* starts with a dict holding the four coordinate keys
NeedsBoxFix(item) ==
    /\ IsDict(item)
    /\ HasKey(item, K_box_2d)
    /\ IsList(item.o[K_box_2d])
    /\ Len(item.o[K_box_2d].l) > 0
    /\ IsDict(item.o[K_box_2d].l[1])
    /\ HasCoordKeys(item.o[K_box_2d].l[1])

\* FlatBox with x and y exchanged
FlatBoxXFirst(coords) ==
    List(<<coords.o[K_xmin], coords.o[K_ymin], coords.o[K_xmax], coords.o[K_ymax]>>)

\* line 78: [coords["ymin"], coords["xmin"], coords["ymax"], coords["xmax"]]
FlatBox(coords) ==
    List(<<coords.o[K_ymin], coords.o[K_xmin], coords.o[K_ymax], coords.o[K_xmax]>>)

\* lines 68-85 for one item: item["box_2d"] = [...] in place
FixBox2d(item) ==
    IF NeedsBoxFix(item)
    THEN Obj([item.o EXCEPT ![K_box_2d] = FlatBox(item.o[K_box_2d].l[1])])
    ELSE item

\* a parsed value returned as it is, without post-processing
PostProcessSkipped(parsed_data) == parsed_data

\* lines 65-85: the post-processing of the strictly parsed data
PostProcess(parsed_data) ==
    IF IsList(parsed_data)
    THEN List([i \in 1..Len(parsed_data.l) |-> FixBox2d(parsed_data.l[i])])
    ELSE parsed_data

\* lines 107-116: the same post-processing after the comma repair
PostProcessFixed(parsed_data) ==
    IF IsList(parsed_data)
    THEN List([i \in 1..Len(parsed_data.l) |-> FixBox2d(parsed_data.l[i])])
    ELSE parsed_data

\* lines 180-189: the same post-processing of a bracket-scan match
PostProcessMatch(parsed_data) ==
    IF IsList(parsed_data)
    THEN List([i \in 1..Len(parsed_data.l) |-> FixBox2d(parsed_data.l[i])])
    ELSE parsed_data

\* lines 99 and 174: the re.sub that puts a comma after every closing brace
\* that is followed, after optional whitespace, by the quoted key label
MissingCommaAt(s, i) ==
    s[i] = "}" /\ MatchAt(s, SkipWs(s, i + 1), Quoted(K_label))

RECURSIVE FixCommasFrom(_, _)
FixCommasFrom(s, i) ==
    IF \E k \in i..Len(s) : MissingCommaAt(s, k)
    THEN LET p == CHOOSE k \in i..Len(s) :
                    /\ MissingCommaAt(s, k)
                    /\ \A j \in i..(k - 1) : ~MissingCommaAt(s, j)
         IN  SubSeq(s, i, p) \o <<",">> \o FixCommasFrom(s, p + 1)
    ELSE From(s, i)

FixCommas(s) == FixCommasFrom(s, 1)

\* one link of coord_pattern (line 133): the first place at or after index i
\* where the quoted key, a colon, optional whitespace and digits follow one
\* another; [found, val, end] with end the index after the digits
RECURSIVE FindKeyNumber(_, _, _)
FindKeyNumber(s, key, i) ==
    LET pat == Quoted(key) \o <<":">>
        p == Find(s, pat, i)
    IN  IF p = 0 THEN [found |-> FALSE, val |-> 0, end |-> 0]
        ELSE
          LET d == SkipWs(s, p + Len(pat))
          IN  IF d <= Len(s) /\ s[d] \in Digits
              THEN [found |-> TRUE,
                    val |-> DigitsToInt(SubSeq(s, d, SkipDigits(s, d) - 1)),
                    end |-> SkipDigits(s, d)]
              ELSE FindKeyNumber(s, key, p + 1)

\* line 136: re.findall(coord_pattern, cleaned_str, re.DOTALL) from index i:
\* the groups (ymin, xmin, ymax, xmax), each link the first one after the last
RECURSIVE FindCoords(_, _)
FindCoords(s, i) ==
    LET a == FindKeyNumber(s, K_ymin, i)
        b == FindKeyNumber(s, K_xmin, a.end)
        c == FindKeyNumber(s, K_ymax, b.end)
        d == FindKeyNumber(s, K_xmax, c.end)
    IN  IF a.found /\ b.found /\ c.found /\ d.found
        THEN <<<<a.val, b.val, c.val, d.val>>>> \o FindCoords(s, d.end)
        ELSE <<>>

\* line 137: re.findall(label_pattern, cleaned_str) from index i: the quoted
\* key label, a colon, optional whitespace and a non-empty quoted text
RECURSIVE FindLabels(_, _)
FindLabels(s, i) ==
    LET pat == Quoted(K_label) \o <<":">>
        p == Find(s, pat, i)
    IN  IF p = 0 THEN <<>>
        ELSE
          LET q == SkipWs(s, p + Len(pat))
              e == IF q <= Len(s) /\ s[q] = QUOTE THEN Find(s, <<QUOTE>>, q + 1) ELSE 0
          IN  IF e > q + 1
              THEN <<SubSeq(s, q + 1, e - 1)>> \o FindLabels(s, e + 1)
              ELSE FindLabels(s, p + 1)

Min(a, b) == IF a <= b THEN a ELSE b
Max(a, b) == IF a >= b THEN a ELSE b

\* ReconstructItems with the labels counted from the end of the text, so
\* that the last coordinate group gets the last label
ReconstructItemsFromLastLabel(coords_matches, labels) ==
    LET n == Min(Len(coords_matches), Len(labels))
    IN  [i \in 1..n |->
            Obj((K_box_2d :> List(<<IntNum(coords_matches[i][1]), IntNum(coords_matches[i][2]),
                                    IntNum(coords_matches[i][3]), IntNum(coords_matches[i][4])>>))
                @@ (K_label :> Str(labels[Len(labels) - n + i])))]

\* lines 143-150: one item per coordinate group that has a label
ReconstructItems(coords_matches, labels) ==
    [i \in 1..Min(Len(coords_matches), Len(labels)) |->
        Obj((K_box_2d :> List(<<IntNum(coords_matches[i][1]), IntNum(coords_matches[i][2]),
                                IntNum(coords_matches[i][3]), IntNum(coords_matches[i][4])>>))
            @@ (K_label :> Str(labels[i])))]

\* lines 127-160: the reconstruction from coordinates and labels
Reconstruct(cleaned_str) ==
    LET coords_matches == FindCoords(cleaned_str, 1)
        labels == FindLabels(cleaned_str, 1)
    IN  IF Len(coords_matches) > 0 /\ Len(labels) > 0
        THEN [ok |-> TRUE, v |-> List(ReconstructItems(coords_matches, labels))]
        ELSE [ok |-> FALSE, v |-> Null]

\* line 169: re.findall of a greedy bracket pattern with re.DOTALL: the one
\* match runs from the first opening to the last closing character
GreedyMatches(s, open, close) ==
    LET a == Find(s, <<open>>, 1)
        b == FindLastChar(s, close, Len(s))
    IN  IF a > 0 /\ b > a THEN <<SubSeq(s, a, b)>> ELSE <<>>

\* lines 171-196 for one pattern: the first match that parses after the comma fix
RECURSIVE TryMatches(_, _)
TryMatches(matches, j) ==
    IF j > Len(matches) THEN [ok |-> FALSE, v |-> Null]
    ELSE LET parsed == JsonLoads(FixCommas(matches[j]))
         IN  IF parsed.ok THEN [ok |-> TRUE, v |-> PostProcessMatch(parsed.v)]
             ELSE TryMatches(matches, j + 1)

\* What a call returns: the value (Null is Python's None) and the return
\* statement that produced it.
Returned(v, path) == [raised |-> "none", v |-> v, path |-> path]

\* Exhausted with an empty list for None
ExhaustedEmptyList == Returned(List(<<>>), "exhausted")

\* line 205: every attempt failed
Exhausted == Returned(Null, "exhausted")

\* lines 22-205
parse_gemini_json_output(s) ==
    IF Len(s) = 0 THEN Returned(Null, "empty")
    ELSE
      LET cleaned_str == StripFence(s)
          strict == JsonLoads(cleaned_str)
          fixed == JsonLoads(FixCommas(cleaned_str))
          rebuilt == Reconstruct(cleaned_str)
          arrays == TryMatches(GreedyMatches(cleaned_str, "[", "]"), 1)
          objects == TryMatches(GreedyMatches(cleaned_str, "{", "}"), 1)
      IN  IF strict.ok THEN Returned(PostProcess(strict.v), "strict")
          ELSE IF fixed.ok THEN Returned(PostProcessFixed(fixed.v), "comma")
          ELSE IF rebuilt.ok THEN Returned(rebuilt.v, "reconstruct")
          ELSE IF arrays.ok THEN Returned(arrays.v, "scan_array")
          ELSE IF objects.ok THEN Returned(objects.v, "scan_object")
          ELSE Exhausted

(***************************************************************************)
(* The parser's inputs: JSON values dumped and wrapped, and raw texts.     *)
(***************************************************************************)
MaxItems == 2     \* the longest generated list

L_dog == <<"d", "o", "g">>
L_x == <<"x">>

Coords(a, b, c, d) ==
    Obj((K_ymin :> IntNum(a)) @@ (K_xmin :> IntNum(b))
        @@ (K_ymax :> IntNum(c)) @@ (K_xmax :> IntNum(d)))

\* the shapes a box_2d value comes in
BoxFlat == List(<<IntNum(1), IntNum(2), IntNum(3), IntNum(4)>>)
BoxNested == List(<<Coords(1, 2, 3, 4)>>)
BoxNestedExtra == List(<<Coords(5, 6, 7, 8), Str(L_dog)>>)
BoxPartial == List(<<Obj((K_ymin :> IntNum(1)) @@ (K_xmin :> IntNum(2)))>>)
BoxShapes == {BoxFlat, BoxNested, BoxNestedExtra, BoxPartial, List(<<>>),
              Coords(1, 2, 3, 4), Num(500)}

BoxItem(box, label) == Obj((K_box_2d :> box) @@ (K_label :> Str(label)))

Items ==
    {BoxItem(b, L_dog) : b \in BoxShapes}
      \cup {Obj(K_box_2d :> BoxNested), Obj(K_label :> Str(L_x)), IntNum(3)}

SeqsUpTo(S, n) == UNION {[1..k -> S] : k \in 0..n}

JsonValues ==
    {List(l) : l \in SeqsUpTo(Items, MaxItems)}
      \cup {Null, Bool(TRUE), IntNum(7), Num(0 - 1250), Str(L_dog),
            BoxItem(BoxNested, L_dog), EmptyObj}

NoValue == [t |-> "absent"]

\* the text a value is sent as: fenced as json, fenced plainly, or bare
Wraps == {"fence_json", "fence", "bare"}
Wrap(kind, body) ==
    CASE kind = "fence_json" -> FenceJson \o <<NL>> \o body \o <<NL>> \o Backticks
      [] kind = "fence" -> Backticks \o <<NL>> \o body \o <<NL>> \o Backticks
      [] kind = "bare" -> body

\* (the empty text)
TextEmpty ==
    <<>>
\*   (newline)  
TextBlank ==
    <<" ", "\n", " ">>
\* no boxes
TextProse ==
    <<"n", "o", " ", "b", "o", "x", "e", "s">>
\* '''
TextFenceOnly ==
    <<GRAVE, GRAVE, GRAVE>>
\* [{"box_2d":[1,2,3,4]}"label":"x"}]
TextMissingComma ==
    <<"[", "{", "\"", "b", "o", "x", "_", "2", "d", "\"", ":", "[", "1", ",",
       "2", ",", "3", ",", "4", "]", "}", "\"", "l", "a", "b", "e", "l", "\"",
       ":", "\"", "x", "\"", "}", "]">>
\* [{"box_2d": {"ymin": 1} "label": "x"}]
TextCommaFixable ==
    <<"[", "{", "\"", "b", "o", "x", "_", "2", "d", "\"", ":", " ", "{",
       "\"", "y", "m", "i", "n", "\"", ":", " ", "1", "}", " ", "\"", "l",
       "a", "b", "e", "l", "\"", ":", " ", "\"", "x", "\"", "}", "]">>
\* [{"box_2d": [{"ymin": 1, "xmin": 2, "ymax": 3, "xmax": 4}], "a": {} "label": "x"}]
TextCommaFixableNested ==
    <<"[", "{", "\"", "b", "o", "x", "_", "2", "d", "\"", ":", " ", "[", "{",
       "\"", "y", "m", "i", "n", "\"", ":", " ", "1", ",", " ", "\"", "x",
       "m", "i", "n", "\"", ":", " ", "2", ",", " ", "\"", "y", "m", "a", "x",
       "\"", ":", " ", "3", ",", " ", "\"", "x", "m", "a", "x", "\"", ":",
       " ", "4", "}", "]", ",", " ", "\"", "a", "\"", ":", " ", "{", "}", " ",
       "\"", "l", "a", "b", "e", "l", "\"", ":", " ", "\"", "x", "\"", "}",
       "]">>
\* [{"box_2d": [{"ymin": 1, "xmin": 2, "ymax": 3, "xmax": 4}, "label": "dog"]}]
TextLabelInBox ==
    <<"[", "{", "\"", "b", "o", "x", "_", "2", "d", "\"", ":", " ", "[", "{",
       "\"", "y", "m", "i", "n", "\"", ":", " ", "1", ",", " ", "\"", "x",
       "m", "i", "n", "\"", ":", " ", "2", ",", " ", "\"", "y", "m", "a", "x",
       "\"", ":", " ", "3", ",", " ", "\"", "x", "m", "a", "x", "\"", ":",
       " ", "4", "}", ",", " ", "\"", "l", "a", "b", "e", "l", "\"", ":", " ",
       "\"", "d", "o", "g", "\"", "]", "}", "]">>
\* "ymin": 1 "xmin": 2 "ymax": 3 "xmax": 4 "label": "x"
TextCoordsNoBrackets ==
    <<"\"", "y", "m", "i", "n", "\"", ":", " ", "1", " ", "\"", "x", "m",
       "i", "n", "\"", ":", " ", "2", " ", "\"", "y", "m", "a", "x", "\"",
       ":", " ", "3", " ", "\"", "x", "m", "a", "x", "\"", ":", " ", "4", " ",
       "\"", "l", "a", "b", "e", "l", "\"", ":", " ", "\"", "x", "\"">>
\* Here: [1, 2] done
TextProseArray ==
    <<"H", "e", "r", "e", ":", " ", "[", "1", ",", " ", "2", "]", " ", "d",
       "o", "n", "e">>
\* See {"a": 1} now
TextProseObject ==
    <<"S", "e", "e", " ", "{", "\"", "a", "\"", ":", " ", "1", "}", " ", "n",
       "o", "w">>
\* boxes [{"box_2d": [{"ymin": 1, "xmin": 2, "ymax": 3, "xmax": 4}], "label": "dog"}] end
TextProseNested ==
    <<"b", "o", "x", "e", "s", " ", "[", "{", "\"", "b", "o", "x", "_", "2",
       "d", "\"", ":", " ", "[", "{", "\"", "y", "m", "i", "n", "\"", ":",
       " ", "1", ",", " ", "\"", "x", "m", "i", "n", "\"", ":", " ", "2", ",",
       " ", "\"", "y", "m", "a", "x", "\"", ":", " ", "3", ",", " ", "\"",
       "x", "m", "a", "x", "\"", ":", " ", "4", "}", "]", ",", " ", "\"", "l",
       "a", "b", "e", "l", "\"", ":", " ", "\"", "d", "o", "g", "\"", "}",
       "]", " ", "e", "n", "d">>
\* [1, 2
TextOpenArray ==
    <<"[", "1", ",", " ", "2">>
\* {"a": }
TextBadObject ==
    <<"{", "\"", "a", "\"", ":", " ", "}">>
\* '''json (newline) [1, 2 (newline) '''
TextFencedBad ==
    <<GRAVE, GRAVE, GRAVE, "j", "s", "o", "n", "\n", "[", "1", ",", " ", "2",
       "\n", GRAVE, GRAVE, GRAVE>>
\* ''' (newline) [1, 2] (newline) '''
TextPlainFence ==
    <<GRAVE, GRAVE, GRAVE, "\n", "[", "1", ",", " ", "2", "]", "\n", GRAVE,
       GRAVE, GRAVE>>
\* [1] and [2]
TextTwoArrays ==
    <<"[", "1", "]", " ", "a", "n", "d", " ", "[", "2", "]">>

\* boxes [{"box_2d": [{"ymin": -1, "xmin": 2, "ymax": 3, "xmax": 4}], "label": "dog"}] end
TextProseNestedNeg ==
    <<"b", "o", "x", "e", "s", " ", "[", "{", "\"", "b", "o", "x", "_", "2",
       "d", "\"", ":", " ", "[", "{", "\"", "y", "m", "i", "n", "\"", ":",
       " ", "-", "1", ",", " ", "\"", "x", "m", "i", "n", "\"", ":", " ", "2",
       ",", " ", "\"", "y", "m", "a", "x", "\"", ":", " ", "3", ",", " ",
       "\"", "x", "m", "a", "x", "\"", ":", " ", "4", "}", "]", ",", " ",
       "\"", "l", "a", "b", "e", "l", "\"", ":", " ", "\"", "d", "o", "g",
       "\"", "}", "]", " ", "e", "n", "d">>
\* [{"box_2d": [1, 2, 3, 4]} "label": "x"}]
TextMissingCommaSpaced ==
    <<"[", "{", "\"", "b", "o", "x", "_", "2", "d", "\"", ":", " ", "[", "1",
       ",", " ", "2", ",", " ", "3", ",", " ", "4", "]", "}", " ", "\"", "l",
       "a", "b", "e", "l", "\"", ":", " ", "\"", "x", "\"", "}", "]">>
\* boxes [{"box_2d": [{"ymin": 1, "xmin": 2, "ymax": 3, "xmax": 4}], "label": "dog", "score": 9}] end
TextProseNestedScore ==
    <<"b", "o", "x", "e", "s", " ", "[", "{", "\"", "b", "o", "x", "_", "2",
       "d", "\"", ":", " ", "[", "{", "\"", "y", "m", "i", "n", "\"", ":",
       " ", "1", ",", " ", "\"", "x", "m", "i", "n", "\"", ":", " ", "2",
       ",", " ", "\"", "y", "m", "a", "x", "\"", ":", " ", "3", ",", " ",
       "\"", "x", "m", "a", "x", "\"", ":", " ", "4", "}", "]", ",", " ",
       "\"", "l", "a", "b", "e", "l", "\"", ":", " ", "\"", "d", "o", "g",
       "\"", ",", " ", "\"", "s", "c", "o", "r", "e", "\"", ":", " ", "9",
       "}", "]", " ", "e", "n", "d">>
\* see [{"label": "x"}, {"box_2d": [{"ymin": 1, "xmin": 2, "ymax": 3, "xmax": 4}], "label": "dog"}] end
TextProseLabelFirst ==
    <<"s", "e", "e", " ", "[", "{", "\"", "l", "a", "b", "e", "l", "\"", ":",
       " ", "\"", "x", "\"", "}", ",", " ", "{", "\"", "b", "o", "x", "_",
       "2", "d", "\"", ":", " ", "[", "{", "\"", "y", "m", "i", "n", "\"",
       ":", " ", "1", ",", " ", "\"", "x", "m", "i", "n", "\"", ":", " ",
       "2", ",", " ", "\"", "y", "m", "a", "x", "\"", ":", " ", "3", ",",
       " ", "\"", "x", "m", "a", "x", "\"", ":", " ", "4", "}", "]", ",",
       " ", "\"", "l", "a", "b", "e", "l", "\"", ":", " ", "\"", "d", "o",
       "g", "\"", "}", "]", " ", "e", "n", "d">>
\* See {"a": [1, 2]}
TextProseObjectArray ==
    <<"S", "e", "e", " ", "{", "\"", "a", "\"", ":", " ", "[", "1", ",", " ",
       "2", "]", "}">>
\* Here: [{"label": "x"}]
TextProseThenArray ==
    <<"H", "e", "r", "e", ":", " ", "[", "{", "\"", "l", "a", "b", "e", "l",
       "\"", ":", " ", "\"", "x", "\"", "}", "]">>
\* Result {"a": 1}
TextProseThenObject ==
    <<"R", "e", "s", "u", "l", "t", " ", "{", "\"", "a", "\"", ":", " ", "1",
       "}">>
\* note [draft (newline) [1, 2] (newline) end ]
TextLinesUnmatched ==
    <<"n", "o", "t", "e", " ", "[", "d", "r", "a", "f", "t", NL, "[", "1",
       ",", " ", "2", "]", NL, "e", "n", "d", " ", "]">>
\* see {this (newline) {"a": 1} (newline) or } that
TextLinesObject ==
    <<"s", "e", "e", " ", "{", "t", "h", "i", "s", NL, "{", "\"", "a", "\"",
       ":", " ", "1", "}", NL, "o", "r", " ", "}", " ", "t", "h", "a", "t">>
\* [{"box_2d": [{"ymin": 1, "xmin": 2, "ymax": 3, "xmax": 4}, "label": "dog"]}, {"box_2d": [{"ymin": 5, "xmin": 6, "ymax": 7, "xmax": 8}, "label": "x"]}]
TextTwoLabelsInBox ==
    <<"[", "{", "\"", "b", "o", "x", "_", "2", "d", "\"", ":", " ", "[", "{",
       "\"", "y", "m", "i", "n", "\"", ":", " ", "1", ",", " ", "\"", "x",
       "m", "i", "n", "\"", ":", " ", "2", ",", " ", "\"", "y", "m", "a",
       "x", "\"", ":", " ", "3", ",", " ", "\"", "x", "m", "a", "x", "\"",
       ":", " ", "4", "}", ",", " ", "\"", "l", "a", "b", "e", "l", "\"",
       ":", " ", "\"", "d", "o", "g", "\"", "]", "}", ",", " ", "{", "\"",
       "b", "o", "x", "_", "2", "d", "\"", ":", " ", "[", "{", "\"", "y",
       "m", "i", "n", "\"", ":", " ", "5", ",", " ", "\"", "x", "m", "i",
       "n", "\"", ":", " ", "6", ",", " ", "\"", "y", "m", "a", "x", "\"",
       ":", " ", "7", ",", " ", "\"", "x", "m", "a", "x", "\"", ":", " ",
       "8", "}", ",", " ", "\"", "l", "a", "b", "e", "l", "\"", ":", " ",
       "\"", "x", "\"", "]", "}", "]">>
\* [{"box_2d": [{"ymin": 1, "xmin": 2, "ymax": 3, "xmax": 4}, "label": "dog"]}, {"box_2d": [{"ymin": 5, "xmin": 6, "ymax": 7, "xmax": 8}]}]
TextTwoBoxesOneLabel ==
    <<"[", "{", "\"", "b", "o", "x", "_", "2", "d", "\"", ":", " ", "[", "{",
       "\"", "y", "m", "i", "n", "\"", ":", " ", "1", ",", " ", "\"", "x",
       "m", "i", "n", "\"", ":", " ", "2", ",", " ", "\"", "y", "m", "a",
       "x", "\"", ":", " ", "3", ",", " ", "\"", "x", "m", "a", "x", "\"",
       ":", " ", "4", "}", ",", " ", "\"", "l", "a", "b", "e", "l", "\"",
       ":", " ", "\"", "d", "o", "g", "\"", "]", "}", ",", " ", "{", "\"",
       "b", "o", "x", "_", "2", "d", "\"", ":", " ", "[", "{", "\"", "y",
       "m", "i", "n", "\"", ":", " ", "5", ",", " ", "\"", "x", "m", "i",
       "n", "\"", ":", " ", "6", ",", " ", "\"", "y", "m", "a", "x", "\"",
       ":", " ", "7", ",", " ", "\"", "x", "m", "a", "x", "\"", ":", " ",
       "8", "}", "]", "}", "]">>
\* {"xmin": 2, "ymin": 1, "ymax": 3, "xmax": 4} {"ymin": 5, "xmin": 6, "ymax": 7, "xmax": 8} "label": "x"
TextCoordsAcrossObjects ==
    <<"{", "\"", "x", "m", "i", "n", "\"", ":", " ", "2", ",", " ", "\"",
       "y", "m", "i", "n", "\"", ":", " ", "1", ",", " ", "\"", "y", "m",
       "a", "x", "\"", ":", " ", "3", ",", " ", "\"", "x", "m", "a", "x",
       "\"", ":", " ", "4", "}", " ", "{", "\"", "y", "m", "i", "n", "\"",
       ":", " ", "5", ",", " ", "\"", "x", "m", "i", "n", "\"", ":", " ",
       "6", ",", " ", "\"", "y", "m", "a", "x", "\"", ":", " ", "7", ",",
       " ", "\"", "x", "m", "a", "x", "\"", ":", " ", "8", "}", " ", "\"",
       "l", "a", "b", "e", "l", "\"", ":", " ", "\"", "x", "\"">>
RawTexts ==
    {TextEmpty, TextBlank, TextProse, TextFenceOnly, TextMissingComma,
     TextCommaFixable, TextCommaFixableNested, TextLabelInBox,
     TextCoordsNoBrackets, TextProseArray, TextProseObject, TextProseNested,
     TextOpenArray, TextBadObject, TextFencedBad, TextPlainFence, TextTwoArrays,
     TextProseNestedNeg, TextMissingCommaSpaced, TextProseNestedScore,
     TextProseLabelFirst,
     TextProseObjectArray, TextProseThenArray, TextProseThenObject,
     TextLinesUnmatched, TextLinesObject,
     TextTwoLabelsInBox, TextTwoBoxesOneLabel, TextCoordsAcrossObjects}

ParseInputs ==
    {[text |-> Wrap(w, JsonDump(v)), origin |-> [wrap |-> w, v |-> v]] :
        w \in Wraps, v \in JsonValues}
      \cup {[text |-> x, origin |-> [wrap |-> "text", v |-> NoValue]] : x \in RawTexts}

(***************************************************************************)
(* The state machine of the parser: a call with one of the inputs.         *)
(***************************************************************************)
NotCalled == [raised |-> "none", v |-> NoValue, path |-> "none"]
RenderIdle == [fn |-> "none"]
VlmIdle == [kind |-> "none"]

ParserAtRest ==
    /\ json_output_str = <<>>
    /\ origin = [wrap |-> "text", v |-> NoValue]
    /\ parse_pc = "idle"
    /\ parse_out = NotCalled

RenderAtRest ==
    /\ render_in = RenderIdle
    /\ render_pc = "idle"
    /\ render_out = NotCalled

VlmAtRest ==
    /\ api_key = "unset"
    /\ gemini_client = "None"
    /\ vlm_in = VlmIdle
    /\ vlm_pc = "idle"
    /\ vlm_out = NotCalled

NoUpload == [kind |-> "none"]
NoTempDir == [exists |-> FALSE, files |-> <<>>]

BatchAtRest ==
    /\ language = "en"
    /\ uploaded_zip_file = NoUpload
    /\ prompt_text = ""
    /\ temp_dir = NoTempDir
    /\ run_pc = "idle"
    /\ image_files = <<>>
    /\ loop_i = 0
    /\ results_data = <<>>
    /\ image_files_processed_paths = <<>>
    /\ shown = <<>>

InitParse ==
    /\ \E inp \in ParseInputs :
          /\ json_output_str = inp.text
          /\ origin = inp.origin
    /\ parse_pc = "call"
    /\ parse_out = NotCalled
    /\ RenderAtRest
    /\ VlmAtRest
    /\ BatchAtRest

\* parsed = parse_gemini_json_output(json_output_str)
CallParse ==
    /\ parse_pc = "call"
    /\ parse_out' = parse_gemini_json_output(json_output_str)
    /\ parse_pc' = "done"
    /\ UNCHANGED <<json_output_str, origin, render_vars, vlm_vars, batch_vars>>

NextParse == CallParse

SpecParse == InitParse /\ [][NextParse]_vars

(***************************************************************************)
(* Claims about the parser, checked under SpecParse.                       *)
(***************************************************************************)
ParseDone == parse_pc = "done"
FencedDump == origin.wrap = "fence_json"

\* what the claims call the parser's stages, on the text of this call
CleanedText == StripFence(json_output_str)
StrictParseFails == ~JsonLoads(CleanedText).ok
CommaRepairFails == ~JsonLoads(FixCommas(CleanedText)).ok
ReconstructionFails ==
    Len(FindCoords(CleanedText, 1)) = 0 \/ Len(FindLabels(CleanedText, 1)) = 0
BracketCandidates ==
    GreedyMatches(CleanedText, "[", "]") \o GreedyMatches(CleanedText, "{", "}")
EveryCandidateFails ==
    \A j \in 1..Len(BracketCandidates) : ~JsonLoads(FixCommas(BracketCandidates[j])).ok

\* an item whose box_2d is a non-empty list that starts with an object
\* holding ymin, xmin, ymax and xmax
HoldsNestedBox(item) ==
    /\ item.t = "obj"
    /\ K_box_2d \in DOMAIN item.o
    /\ item.o[K_box_2d].t = "list"
    /\ Len(item.o[K_box_2d].l) >= 1
    /\ item.o[K_box_2d].l[1].t = "obj"
    /\ {K_ymin, K_xmin, K_ymax, K_xmax} \subseteq DOMAIN item.o[K_box_2d].l[1].o

ListWithNestedBox(v) ==
    v.t = "list" /\ \E i \in 1..Len(v.l) : HoldsNestedBox(v.l[i])

\* C1 as stated: for every JSON value v, parsing the json-fenced dump of v
\* returns a value equal to v.
C1_FenceRoundTrip ==
    (ParseDone /\ FencedDump) => parse_out.v = origin.v

\* C1 as amended: for every JSON value v that is not a list with an item
\* whose box_2d is a non-empty list starting with an object that holds ymin,
\* xmin, ymax and xmax, parsing the json-fenced dump of v returns, from the
\* strict parse and without raising, a value equal to v.
C1_FenceRoundTripUnlessRepaired ==
    (ParseDone /\ FencedDump /\ ~ListWithNestedBox(origin.v))
        => /\ parse_out.raised = "none"
           /\ parse_out.path = "strict"
           /\ parse_out.v = origin.v

\* C1's case: the fenced dump of a two-item list whose first item carries a
\* flat box_2d and a label came back unchanged.
C1_Witness ==
    /\ ParseDone /\ FencedDump
    /\ origin.v.t = "list" /\ Len(origin.v.l) = 2
    /\ origin.v.l[1] = BoxItem(BoxFlat, L_dog)
    /\ ~ListWithNestedBox(origin.v)
    /\ parse_out.v = origin.v

C3_CommaRepairRecoversItem ==
    (ParseDone /\ json_output_str \in {TextMissingComma, TextMissingCommaSpaced})
        => /\ parse_out.v.t = "list"
           /\ Len(parse_out.v.l) = 1
           /\ parse_out.v.l[1].t = "obj"
           /\ K_label \in DOMAIN parse_out.v.l[1].o

\* the flat list [ymin, xmin, ymax, xmax] of a coordinate object
FlatOf(c) == List(<<c.o[K_ymin], c.o[K_xmin], c.o[K_ymax], c.o[K_xmax]>>)

\* an item whose box_2d is a one-element list holding an object with the keys
\* ymin, xmin, ymax and xmax
OneNestedBox(item) == HoldsNestedBox(item) /\ Len(item.o[K_box_2d].l) = 1

\* item `after` is item `before` with its box_2d flattened and every other key
\* (the label among them) as it was
RepairedFrom(before, after) ==
    /\ after.t = "obj"
    /\ DOMAIN after.o = DOMAIN before.o
    /\ after.o[K_box_2d] = FlatOf(before.o[K_box_2d].l[1])
    /\ \A k \in DOMAIN before.o \ {K_box_2d} : after.o[k] = before.o[k]

\* C4: every parsed list item whose box_2d is a one-element list holding an
\* object with ymin, xmin, ymax, xmax comes back with box_2d equal to the flat
\* list [ymin, xmin, ymax, xmax] and its label unchanged: for the dumped
\* lists (strict parse), and for the texts that reach the comma-repaired and
\* the bracket-scan parse.
C4_NestedBoxFlattened ==
    ParseDone =>
        /\ (origin.wrap # "text" /\ origin.v.t = "list")
              => /\ parse_out.v.t = "list"
                 /\ Len(parse_out.v.l) = Len(origin.v.l)
                 /\ \A i \in 1..Len(origin.v.l) :
                        OneNestedBox(origin.v.l[i])
                            => RepairedFrom(origin.v.l[i], parse_out.v.l[i])
        /\ json_output_str = TextCommaFixableNested
              => /\ parse_out.path = "comma"
                 /\ parse_out.v.l[1].o[K_box_2d] = BoxFlat
                 /\ parse_out.v.l[1].o[K_label] = Str(L_x)
        /\ json_output_str = TextProseNestedNeg
              => /\ parse_out.path = "scan_array"
                 /\ parse_out.v.l[1].o[K_box_2d]
                      = List(<<IntNum(0 - 1), IntNum(2), IntNum(3), IntNum(4)>>)
                 /\ parse_out.v.l[1].o[K_label] = Str(L_dog)

\* C4's case: the spec's example item, fenced, came back flattened.
C4_Witness ==
    /\ ParseDone /\ FencedDump
    /\ origin.v = List(<<BoxItem(BoxNested, L_dog)>>)
    /\ parse_out.v = List(<<BoxItem(BoxFlat, L_dog)>>)

(***************************************************************************)
(* The renderers (utils/visualization_utils.py).  A renderer's result is   *)
(* held as the overlay elements and the details list it built, in order;   *)
(* raised names the exception that left the function.  A percentage is     *)
(* held in ten-thousandths of a percent, so that (m / 1000) * 100 for a    *)
(* coordinate of m thousandths is the integer m; 100% is FullPercent.      *)
(***************************************************************************)
Chars(s) == [i \in 1..Len(s) |-> SubSeq(s, i, i)]

\* int and float, and bool, which is an int: the values arithmetic accepts
Numeric(v) == v.t \in {"num", "bool"}
Milli(v) == IF v.t = "bool" THEN (IF v.b THEN 1000 ELSE 0) ELSE v.n

\* len(v) is defined for a list, a str and a dict, and is a TypeError otherwise
Sized(v) == v.t \in {"list", "str", "obj"}
PyLen(v) ==
    CASE v.t = "list" -> Len(v.l)
      [] v.t = "str" -> Len(v.s)
      [] v.t = "obj" -> Cardinality(DOMAIN v.o)

\* what iterating (unpacking) v yields: the elements, the characters, the keys
Unpacked(v) ==
    CASE v.t = "list" -> v.l
      [] v.t = "str" -> [k \in 1..Len(v.s) |-> Str(<<v.s[k]>>)]
      [] v.t = "obj" -> [k \in 1..Cardinality(DOMAIN v.o) |-> Str(SetToSeq(DOMAIN v.o)[k])]

\* int(a / b): truncation towards zero
Trunc(a, b) == IF a >= 0 THEN a \div b ELSE 0 - ((0 - a) \div b)

FullPercent == 1000000
\* a clamp that lets every value through
ClampOff(lo, hi, x) == x

\* max(lo, min(hi, x))
Clamp(lo, hi, x) == Max(lo, Min(hi, x))

Fresh == [raised |-> "none", elements |-> <<>>, details |-> <<>>]
AddElement(acc, e) == [acc EXCEPT !.elements = Append(@, e)]
AddDetail(acc, kind, n, what) ==
    [acc EXCEPT !.details = Append(@, [kind |-> kind, item |-> n, what |-> what])]
Raise(acc, exc) == [acc EXCEPT !.raised = exc]

\* the exception a format spec with f raises on the first value that is no number
FormatError(vs) ==
    LET bad == {k \in DOMAIN vs : ~Numeric(vs[k])}
        first == CHOOSE k \in bad : \A j \in bad : k <= j
    IN  IF vs[first].t = "str" THEN "ValueError" ELSE "TypeError"

\* the loop body of generate_point_html without the test for the label key
PointItemLabelOptional(acc, i, item) ==
    IF ~(IsDict(item) /\ HasKey(item, K_point))
    THEN AddDetail(acc, "invalid", i + 1, "Invalid point data format")
    ELSE LET point_coords == item.o[K_point]
             label == IF HasKey(item, K_label) THEN item.o[K_label] ELSE Str(<<>>)
         IN  IF ~Sized(point_coords) THEN AddDetail(acc, "error", i + 1, "TypeError")
             ELSE IF PyLen(point_coords) # 2 THEN acc
             ELSE LET y_raw == Unpacked(point_coords)[1]
                      x_raw == Unpacked(point_coords)[2]
                  IN  IF ~(Numeric(x_raw) /\ Numeric(y_raw))
                      THEN AddDetail(acc, "error", i + 1, "TypeError")
                      ELSE AddDetail(
                             AddElement(acc, [kind |-> "point",
                                              left |-> Milli(x_raw),
                                              top |-> Milli(y_raw),
                                              z_index |-> 10 + i,
                                              label |-> label]),
                             "detail", i + 1, label)

\* one pass of the loop of generate_point_html; i is the index of enumerate
PointItem(acc, i, item) ==
    IF ~(IsDict(item) /\ HasKey(item, K_point) /\ HasKey(item, K_label))
    THEN AddDetail(acc, "invalid", i + 1, "Invalid point data format")
    ELSE LET point_coords == item.o[K_point]
             label == item.o[K_label]
         IN  IF ~Sized(point_coords) THEN AddDetail(acc, "error", i + 1, "TypeError")
             ELSE IF PyLen(point_coords) # 2 THEN acc
             ELSE LET y_raw == Unpacked(point_coords)[1]
                      x_raw == Unpacked(point_coords)[2]
                  IN  IF ~(Numeric(x_raw) /\ Numeric(y_raw))
                      THEN AddDetail(acc, "error", i + 1, "TypeError")
                      ELSE AddDetail(
                             AddElement(acc, [kind |-> "point",
                                              left |-> Milli(x_raw),
                                              top |-> Milli(y_raw),
                                              z_index |-> 10 + i,
                                              label |-> label]),
                             "detail", i + 1, label)

\* one pass of the loop of generate_2d_box_html
Box2dItem(acc, i, item) ==
    IF ~(IsDict(item) /\ HasKey(item, K_box_2d) /\ HasKey(item, K_label))
    THEN AddDetail(acc, "invalid", i + 1, "Invalid box data format")
    ELSE LET box_2d == item.o[K_box_2d]
             label == item.o[K_label]
         IN  IF ~Sized(box_2d) THEN AddDetail(acc, "error", i + 1, "TypeError")
             ELSE IF PyLen(box_2d) # 4 THEN acc
             ELSE LET ymin == Unpacked(box_2d)[1]
                      xmin == Unpacked(box_2d)[2]
                      ymax == Unpacked(box_2d)[3]
                      xmax == Unpacked(box_2d)[4]
                  IN  IF ~(\A c \in {ymin, xmin, ymax, xmax} : Numeric(c))
                      THEN AddDetail(acc, "error", i + 1, "TypeError")
                      ELSE AddDetail(
                             AddElement(acc, [kind |-> "box",
                                              top |-> Milli(ymin),
                                              left |-> Milli(xmin),
                                              width |-> Milli(xmax) - Milli(xmin),
                                              height |-> Milli(ymax) - Milli(ymin),
                                              z_index |-> 10 + i,
                                              label |-> label]),
                             "detail", i + 1, label)

\* one pass of the loop of generate_3d_box_html: the rectangle is appended
\* before the details line is formatted
Box3dItem(acc, item) ==
    IF ~(IsDict(item) /\ HasKey(item, K_box_3d) /\ HasKey(item, K_label))
    THEN acc
    ELSE LET params == item.o[K_box_3d]
             label == item.o[K_label]
         IN  IF ~Sized(params) THEN AddDetail(acc, "error", label, "TypeError")
             ELSE IF PyLen(params) # 9
             THEN AddDetail(acc, "malformed", label, PyLen(params))
             ELSE LET p == Unpacked(params)
                  IN  IF ~(\A k \in {1, 2, 4, 5} : Numeric(p[k]))
                      THEN AddDetail(acc, "error", label, "TypeError")
                      ELSE LET norm_xc == Clamp(0, 1000, Milli(p[1]))
                               norm_yc == Clamp(0, 1000, Milli(p[2]))
                               norm_xs == Clamp(0, 1000, Milli(p[4]))
                               norm_ys == Clamp(0, 1000, Milli(p[5]))
                               width0 == norm_xs * 1000
                               height0 == norm_ys * 1000
                               svg_x == Clamp(0, FullPercent - width0,
                                              (2 * norm_xc - norm_xs) * 500)
                               svg_y == Clamp(0, FullPercent - height0,
                                              (2 * norm_yc - norm_ys) * 500)
                               drawn ==
                                 AddElement(acc,
                                   [kind |-> "rect", x |-> svg_x, y |-> svg_y,
                                    width |-> Clamp(0, FullPercent - svg_x, width0),
                                    height |-> Clamp(0, FullPercent - svg_y, height0),
                                    label |-> label])
                           IN  IF \A k \in 1..9 : Numeric(p[k])
                               THEN AddDetail(drawn, "detail", label, p)
                               ELSE AddDetail(drawn, "error", label, FormatError(p))

\* a palette that is one colour short
SEGMENTATION_COLORS_SHORT ==
    <<"#E6194B", "#3C89D0", "#3CB44B", "#FFE119", "#911EB4",
      "#42D4F4", "#F58231", "#F032E6", "#BFEF45">>

SEGMENTATION_COLORS ==
    <<"#E6194B", "#3C89D0", "#3CB44B", "#FFE119", "#911EB4",
      "#42D4F4", "#F58231", "#F032E6", "#BFEF45", "#469990">>

\* the value of a hexadecimal digit, of either case
HexVal(c) ==
    CHOOSE v \in 0..15 : c \in {Chars("0123456789abcdef")[v + 1],
                                Chars("0123456789ABCDEF")[v + 1]}

\* hex_to_rgb: the leading hash signs are stripped, then three pairs of
\* hexadecimal digits are read
hex_to_rgb(hex_color) ==
    LET stripped == IF \A j \in DOMAIN hex_color : hex_color[j] = "#" THEN <<>>
                    ELSE From(hex_color,
                              CHOOSE j \in DOMAIN hex_color :
                                  /\ hex_color[j] # "#"
                                  /\ \A m \in 1..(j - 1) : hex_color[m] = "#")
    IN  [c \in 1..3 |-> 16 * HexVal(stripped[2 * c - 1]) + HexVal(stripped[2 * c])]

SEGMENTATION_COLORS_RGB ==
    [k \in DOMAIN SEGMENTATION_COLORS |-> hex_to_rgb(Chars(SEGMENTATION_COLORS[k]))]

\* the id of the canvas of the item at position i, without the position
CanvasIdOfImage(image_id, i) == Chars("mask_canvas_") \o image_id

\* canvas_id: the id of the canvas of the item at position i of the image
CanvasId(image_id, i) ==
    Chars("mask_canvas_") \o image_id \o <<"_">> \o IntToDigits(i)

PngPrefix == Chars("data:image/png;base64,")
ImagePrefix == Chars("data:image/")
Base64Mark == Chars("base64,")

\* clean_mask_data: the mask without a data URL prefix
CleanMask(mask_data) ==
    IF StartsWith(mask_data, PngPrefix) THEN From(mask_data, Len(PngPrefix) + 1)
    ELSE IF StartsWith(mask_data, ImagePrefix)
    THEN LET base64_start == Find(mask_data, Base64Mark, 1)
         IN  IF base64_start # 0 THEN From(mask_data, base64_start + Len(Base64Mark))
             ELSE mask_data
    ELSE mask_data

\* one pass of the loop of generate_segmentation_html: the canvas and the
\* details line are appended before the mask is looked at
SegmentationItem(acc, i, item, pil_image, image_id) ==
    IF ~(IsDict(item) /\ HasKey(item, K_box_2d) /\ HasKey(item, K_mask)
           /\ HasKey(item, K_label))
    THEN AddDetail(acc, "invalid", i, "Invalid mask data format")
    ELSE LET box_2d == item.o[K_box_2d]
             mask_data == item.o[K_mask]
             label == item.o[K_label]
         IN  IF ~Sized(box_2d) THEN AddDetail(acc, "error", i, "TypeError")
             ELSE IF PyLen(box_2d) # 4 THEN acc
             ELSE LET ymin == Unpacked(box_2d)[1]
                      xmin == Unpacked(box_2d)[2]
                      ymax == Unpacked(box_2d)[3]
                      xmax == Unpacked(box_2d)[4]
                  IN  IF ~(\A c \in {ymin, xmin, ymax, xmax} : Numeric(c))
                      THEN AddDetail(acc, "error", i, "TypeError")
                      ELSE LET color_rgb ==
                                 SEGMENTATION_COLORS_RGB[(i % Len(SEGMENTATION_COLORS_RGB)) + 1]
                               color_hex ==
                                 SEGMENTATION_COLORS[(i % Len(SEGMENTATION_COLORS)) + 1]
                               canvas ==
                                 [kind |-> "canvas", canvas_id |-> CanvasId(image_id, i),
                                  left |-> Trunc(Milli(xmin) * pil_image.width, 1000 * 1000),
                                  top |-> Trunc(Milli(ymin) * pil_image.height, 1000 * 1000),
                                  width |-> Max(1, Trunc((Milli(xmax) - Milli(xmin))
                                                          * pil_image.width, 1000 * 1000)),
                                  height |-> Max(1, Trunc((Milli(ymax) - Milli(ymin))
                                                           * pil_image.height, 1000 * 1000)),
                                  color |-> color_hex, z_index |-> 10 + i,
                                  label |-> label]
                               drawn == AddDetail(AddElement(acc, canvas), "detail", i, label)
                           IN  IF ~IsStr(mask_data) THEN Raise(drawn, "AttributeError")
                               ELSE AddElement(drawn,
                                      [kind |-> "script",
                                       canvas_id |-> CanvasId(image_id, i),
                                       maskData |-> CleanMask(mask_data.s),
                                       color_rgb |-> color_rgb,
                                       color |-> color_hex])

\* the loop over the items, ended by the first item that is reported
\* instead of drawn
RECURSIVE RenderItemsUntilReported(_, _, _, _, _, _)
RenderItemsUntilReported(fn, pil_image, image_id, data, k, acc) ==
    IF \/ k > Len(data)
       \/ acc.raised # "none"
       \/ \E j \in DOMAIN acc.details : acc.details[j].kind # "detail"
    THEN acc
    ELSE RenderItemsUntilReported(fn, pil_image, image_id, data, k + 1,
           CASE fn = "point" -> PointItem(acc, k - 1, data[k])
             [] fn = "box_2d" -> Box2dItem(acc, k - 1, data[k])
             [] fn = "box_3d" -> Box3dItem(acc, data[k])
             [] fn = "segmentation" -> SegmentationItem(acc, k - 1, data[k], pil_image,
                                                        image_id))

\* the loop over the items, from the k-th on; an exception that is not caught
\* ends it
RECURSIVE RenderItems(_, _, _, _, _, _)
RenderItems(fn, pil_image, image_id, data, k, acc) ==
    IF k > Len(data) \/ acc.raised # "none" THEN acc
    ELSE RenderItems(fn, pil_image, image_id, data, k + 1,
           CASE fn = "point" -> PointItem(acc, k - 1, data[k])
             [] fn = "box_2d" -> Box2dItem(acc, k - 1, data[k])
             [] fn = "box_3d" -> Box3dItem(acc, data[k])
             [] fn = "segmentation" -> SegmentationItem(acc, k - 1, data[k], pil_image,
                                                        image_id))

generate_point_html(pil_image, points_data, image_id) ==
    RenderItems("point", pil_image, image_id,
                IF IsList(points_data) THEN points_data.l ELSE <<>>, 1, Fresh)

generate_2d_box_html(pil_image, boxes_data, image_id) ==
    RenderItems("box_2d", pil_image, image_id,
                IF IsList(boxes_data) THEN boxes_data.l ELSE <<>>, 1, Fresh)

\* the text is parsed once, before the loop
generate_3d_box_html(pil_image, boxes_json_str, image_id) ==
    CHOOSE out \in
        {RenderItems("box_3d", pil_image, image_id,
                     IF IsList(parsed_boxes_data) THEN parsed_boxes_data.l ELSE <<>>,
                     1, Fresh) :
           parsed_boxes_data \in {parse_gemini_json_output(boxes_json_str).v}} : TRUE

\* no test that segmentation_data is a list: enumerate takes what iterates
generate_segmentation_html(pil_image, segmentation_data, image_id) ==
    IF ~Sized(segmentation_data) THEN Raise(Fresh, "TypeError")
    ELSE RenderItems("segmentation", pil_image, image_id,
                     Unpacked(segmentation_data), 1, Fresh)

(***************************************************************************)
(* The inputs of the renderers: lists of at most MaxRenderItems items, of  *)
(* which some are well formed and the others lack a key, have a            *)
(* coordinate list of the wrong length, hold a value that is no number,    *)
(* or are no object at all.                                                *)
(***************************************************************************)
MaxRenderItems == 3

Ints(s) == List([k \in 1..Len(s) |-> IntNum(s[k])])
Labelled(key, v) == Obj((key :> v) @@ (K_label :> Str(L_dog)))

PointItems ==
    {Labelled(K_point, Ints(<<500, 250>>)),
     Labelled(K_point, List(<<Num(12500), IntNum(1000)>>)),
     Obj(K_point :> Ints(<<500, 250>>)),
     Obj(K_label :> Str(L_dog)),
     Labelled(K_point, Ints(<<1, 2, 3>>)),
     Labelled(K_point, List(<<Str(L_x), IntNum(5)>>)),
     Labelled(K_point, IntNum(5)),
     IntNum(3)}

Box2dItems ==
    {Labelled(K_box_2d, Ints(<<100, 100, 400, 400>>)),
     Labelled(K_box_2d, List(<<Num(100), Num(100), Num(400), Num(400)>>)),
     Labelled(K_box_2d, Ints(<<0, 500, 100, 200>>)),
     Obj(K_box_2d :> Ints(<<100, 100, 400, 400>>)),
     Obj(K_label :> Str(L_dog)),
     Labelled(K_box_2d, Ints(<<1, 2, 3>>)),
     Labelled(K_box_2d, List(<<Null, IntNum(1), IntNum(2), IntNum(3)>>)),
     Str(L_dog)}

Params(xc, yc, zc, xs, ys) ==
    List(<<xc, yc, zc, xs, ys, IntNum(1), IntNum(0), IntNum(0), IntNum(90)>>)

Box3dItems ==
    {Labelled(K_box_3d, Params(Num(500), Num(500), IntNum(1), Num(200), Num(400))),
     Labelled(K_box_3d, Params(Num(1500), Num(0 - 200), IntNum(0), IntNum(2), Num(500))),
     Labelled(K_box_3d, Ints(<<1, 2, 3, 4, 5, 6, 7, 8>>)),
     Obj(K_box_3d :> Params(Num(500), Num(500), IntNum(1), Num(200), Num(400))),
     Obj(K_label :> Str(L_dog)),
     Labelled(K_box_3d, Params(Num(500), Num(500), Str(L_x), Num(200), Num(400))),
     Labelled(K_box_3d, Params(Str(L_x), Num(500), IntNum(1), Num(200), Num(400))),
     IntNum(3)}

Masked(box, mask) ==
    Obj((K_box_2d :> box) @@ (K_mask :> mask) @@ (K_label :> Str(L_dog)))

SegmentationItems ==
    {Masked(Ints(<<100, 100, 400, 400>>), Str(Chars("iVBORw0KGgo="))),
     Masked(Ints(<<0, 0, 1, 1>>), Str(PngPrefix \o Chars("iVBORw0KGgo="))),
     Masked(Ints(<<290, 290, 1000, 1000>>), Str(Chars("data:image/gif;base64,R0lG"))),
     Masked(Ints(<<100, 100, 400, 400>>), Str(Chars("data:image/x"))),
     Masked(Ints(<<100, 100, 400, 400>>), List(<<Ints(<<0, 0, 1, 1, 2, 2>>)>>)),
     Labelled(K_box_2d, Ints(<<100, 100, 400, 400>>)),
     Masked(Ints(<<1, 2, 3>>), Str(Chars("iVBORw0KGgo="))),
     Masked(List(<<Str(L_x), IntNum(1), IntNum(2), IntNum(3)>>), Str(Chars("iVBORw0KGgo="))),
     Null}

Images == {[width |-> 1000, height |-> 500], [width |-> 640, height |-> 480]}

ItemsOf(fn) ==
    CASE fn = "point" -> PointItems
      [] fn = "box_2d" -> Box2dItems
      [] fn = "box_3d" -> Box3dItems
      [] fn = "segmentation" -> SegmentationItems

Renderers == {"point", "box_2d", "box_3d", "segmentation"}

\* the longest list of masks: longer than the palette, so that it wraps
MaxPaletteItems == 12

\* lists of well-formed masks longer than the palette, with at most one
\* position held by an item that is skipped
PaletteRuns ==
    {[k \in 1..n |-> IF k = skip THEN Null
                     ELSE Masked(Ints(<<100, 100, 400, 400>>), Str(Chars("iVBORw0KGgo=")))] :
       n \in 11..MaxPaletteItems, skip \in 0..MaxPaletteItems}

\* an item of the renderer fn whose label is the empty string
EmptyLabelled(key, v) == Obj((key :> v) @@ (K_label :> Str(<<>>)))

\* lists that hold the cases the item sets above leave out, drawn on the
\* images of CaseImages
CaseImages == {[width |-> 400, height |-> 200], [width |-> 800, height |-> 600]}

CaseLists(fn) ==
    CASE fn = "point" ->
           {<<Labelled(K_point, Ints(<<500, 250>>))>>,
            <<Labelled(K_point, List(<<IntNum(1500), IntNum(0 - 20)>>))>>,
            <<EmptyLabelled(K_point, Ints(<<500, 250>>))>>}
      [] fn = "box_2d" ->
           {<<Labelled(K_box_2d, Ints(<<100, 100, 101, 101>>))>>,
            <<Labelled(K_box_2d, Ints(<<100, 100, 101, 400>>))>>,
            <<EmptyLabelled(K_box_2d, Ints(<<100, 100, 400, 400>>))>>}
      [] fn = "box_3d" ->
           {<<Labelled(K_box_3d, Params(Num(900), Num(100), IntNum(1), Num(400), Num(600))),
              Labelled(K_box_3d, List(<<Num(900), Num(100), IntNum(7), Num(400), Num(600),
                                        IntNum(3), IntNum(45), IntNum(10), IntNum(5)>>))>>,
            <<EmptyLabelled(K_box_3d,
                            Params(Num(500), Num(500), IntNum(1), Num(200), Num(400)))>>}
      [] fn = "segmentation" ->
           PaletteRuns
             \cup {<<Masked(Ints(<<100, 100, 400, 400>>), Ints(<<0, 0, 1, 1>>))>>,
                   <<Masked(Ints(<<100, 100, 400, 400>>), Ints(<<0, 0, 1, 1, 2, 2>>))>>,
                   <<Obj((K_box_2d :> Ints(<<100, 100, 400, 400>>))
                           @@ (K_mask :> Str(Chars("iVBORw0KGgo=")))
                           @@ (K_label :> Str(<<>>)))>>}

\* the image id a renderer takes when the caller gives none
DefaultImageId ==
    [fn \in Renderers |->
       CASE fn = "point" -> Chars("imageToAnnotate")
         [] fn = "box_2d" -> Chars("imageToAnnotate2D")
         [] fn = "box_3d" -> Chars("imageToAnnotate3D")
         [] fn = "segmentation" -> Chars("imageToAnnotateSegmentation")]

\* the call of test_segmentation_new_format: two masks on an image of
\* 200 by 200, under the image id test_image_new
sample_data ==
    <<Obj((K_box_2d :> Ints(<<50, 50, 150, 150>>))
            @@ (K_label :> Str(Chars("Test Object 1")))
            @@ (K_mask :> Str(Chars("iVBORw0KGgoAAAANSUhEUgAAAAEAAAABCAYAAAAf")))),
      Obj((K_box_2d :> Ints(<<10, 10, 90, 90>>))
            @@ (K_label :> Str(Chars("Test Object 2")))
            @@ (K_mask :> Str(Chars("iVBORw0KGgoAAAANSUhEUgAAAAEAAAABCAYAAAAf"))))>>

test_segmentation_new_format ==
    [fn |-> "segmentation", pil_image |-> [width |-> 200, height |-> 200],
     image_id |-> Chars("test_image_new"),
     items |-> sample_data, data |-> List(sample_data)]

\* a call of a renderer: its name, the image, the list of items and the
\* argument that carries it (for the 3D renderer the fenced text of the list)
RenderInput(fn, img, l) ==
    [fn |-> fn, pil_image |-> img, image_id |-> DefaultImageId[fn], items |-> l,
     data |-> IF fn = "box_3d" THEN Wrap("fence_json", JsonDump(List(l))) ELSE List(l)]

\* the calls: with the lists of the item sets, with the case lists, and with
\* an argument that is no list
RenderInputs ==
    UNION {{RenderInput(fn, img, l) :
               img \in Images, l \in SeqsUpTo(ItemsOf(fn), MaxRenderItems)} :
             fn \in Renderers}
      \cup UNION {{RenderInput(fn, img, l) : img \in CaseImages, l \in CaseLists(fn)} :
                    fn \in Renderers}
      \cup {[fn |-> fn, pil_image |-> img, image_id |-> DefaultImageId[fn],
             items |-> <<>>,
             data |-> IF fn = "box_3d" THEN TextProse ELSE d] :
               fn \in Renderers, img \in Images, d \in {Null, Str(L_dog)}}
      \cup {test_segmentation_new_format}

(***************************************************************************)
(* The state machine of the renderers: a call of one of them.              *)
(***************************************************************************)
InitRender ==
    /\ render_in \in RenderInputs
    /\ render_pc = "call"
    /\ render_out = NotCalled
    /\ ParserAtRest
    /\ VlmAtRest
    /\ BatchAtRest

Rendered(out) ==
    /\ render_out' = out
    /\ render_pc' = "done"
    /\ UNCHANGED <<render_in, parser_vars, vlm_vars, batch_vars>>

CallPoint ==
    /\ render_pc = "call" /\ render_in.fn = "point"
    /\ Rendered(generate_point_html(render_in.pil_image, render_in.data,
                                         render_in.image_id))

Call2dBox ==
    /\ render_pc = "call" /\ render_in.fn = "box_2d"
    /\ Rendered(generate_2d_box_html(render_in.pil_image, render_in.data,
                                          render_in.image_id))

Call3dBox ==
    /\ render_pc = "call" /\ render_in.fn = "box_3d"
    /\ Rendered(generate_3d_box_html(render_in.pil_image, render_in.data,
                                          render_in.image_id))

CallSegmentation ==
    /\ render_pc = "call" /\ render_in.fn = "segmentation"
    /\ Rendered(generate_segmentation_html(render_in.pil_image, render_in.data,
                                                render_in.image_id))

NextRender == CallPoint \/ Call2dBox \/ Call3dBox \/ CallSegmentation

SpecRender == InitRender /\ [][NextRender]_vars

(***************************************************************************)
(* Properties of the renderers.                                            *)
(***************************************************************************)
RenderDone == render_pc = "done"
ListGiven == render_in.fn = "box_3d" \/ IsList(render_in.data)

\* the overlay elements of a result (a canvas and its script are one overlay)
Overlays(out) ==
    Cardinality({j \in DOMAIN out.elements : out.elements[j].kind # "script"})
\* the entries of the details list that report an item that was not drawn
Diagnostics(out) ==
    Cardinality({j \in DOMAIN out.details : out.details[j].kind # "detail"})

CoordKey(fn) == IF fn = "point" THEN K_point ELSE K_box_2d
Arity(fn) == IF fn = "point" THEN 2 ELSE 4

\* an item with its coordinate list of the right length, all numbers
HasCoordinates(fn, item) ==
    /\ IsDict(item) /\ HasKey(item, CoordKey(fn))
    /\ IsList(item.o[CoordKey(fn)])
    /\ Len(item.o[CoordKey(fn)].l) = Arity(fn)
    /\ \A c \in DOMAIN item.o[CoordKey(fn)].l : IsNum(item.o[CoordKey(fn)].l[c])
LacksLabel(fn, item) == HasCoordinates(fn, item) /\ ~HasKey(item, K_label)
Drawable(fn, item) == HasCoordinates(fn, item) /\ HasKey(item, K_label)

\* C6. Non-fatal item drop: for a list of n point (2D box) items of which k
\* lack the label key, the others being well formed, the point and the 2D box
\* renderer return without raising, with exactly n - k overlay elements,
\* those of the items that have a label.
C6_UnlabelledItemsDropped ==
    (/\ RenderDone
     /\ render_in.fn \in {"point", "box_2d"}
     /\ IsList(render_in.data)
     /\ \A k \in DOMAIN render_in.items :
           \/ LacksLabel(render_in.fn, render_in.items[k])
           \/ Drawable(render_in.fn, render_in.items[k]))
    => LET labelled == {k \in DOMAIN render_in.items :
                           Drawable(render_in.fn, render_in.items[k])}
       IN  /\ render_out.raised = "none"
           /\ Len(render_out.elements) = Cardinality(labelled)
           /\ {e.z_index - 9 : e \in {render_out.elements[j] :
                                         j \in DOMAIN render_out.elements}} = labelled

\* C6 (witness): a list of three items whose second lacks its label has been
\* rendered with exactly two overlay elements.
C6_Witness ==
    /\ RenderDone
    /\ render_in.fn \in {"point", "box_2d"}
    /\ Len(render_in.items) = 3
    /\ Drawable(render_in.fn, render_in.items[1])
    /\ LacksLabel(render_in.fn, render_in.items[2])
    /\ Drawable(render_in.fn, render_in.items[3])
    /\ render_out.raised = "none"
    /\ Len(render_out.elements) = 2

\* C7. Rendering never raises: for every input list, whatever its items
\* (missing keys, wrong arity, values that are no numbers, a mask that is a
\* list of polygons, an item that is no object), each of the four renderers
\* returns without raising.
C7_RenderingNeverRaises ==
    (RenderDone /\ ListGiven) => render_out.raised = "none"

\* C8. No silent drop: when a renderer returns, the number of overlay
\* elements plus the number of diagnostics in its details list equals the
\* number of input items.
C8_NoSilentDrop ==
    (RenderDone /\ ListGiven /\ render_out.raised = "none")
    => Overlays(render_out) + Diagnostics(render_out) = Len(render_in.items)

\* C9. 2D box coordinate-space detection: a drawn box_2d whose four values
\* are all at most 1.0 is placed at those fractions of the image; one with a
\* value above 1.0 is placed at its values divided by the image width (x) and
\* height (y).
C9_CoordinateSpaceDetected ==
    (RenderDone /\ render_in.fn = "box_2d" /\ IsList(render_in.data))
    => \A k \in DOMAIN render_in.items :
          Drawable("box_2d", render_in.items[k])
          => \E j \in DOMAIN render_out.elements :
                LET e == render_out.elements[j]
                    b == render_in.items[k].o[K_box_2d].l
                    W == render_in.pil_image.width
                    H == render_in.pil_image.height
                IN  /\ e.z_index = 9 + k
                    /\ IF \A c \in 1..4 : b[c].n <= 1000
                       THEN /\ e.top = b[1].n * 1000
                            /\ e.left = b[2].n * 1000
                            /\ e.top + e.height = b[3].n * 1000
                            /\ e.left + e.width = b[4].n * 1000
                       ELSE /\ e.top * H = b[1].n * 1000
                            /\ e.left * W = b[2].n * 1000
                            /\ (e.top + e.height) * H = b[3].n * 1000
                            /\ (e.left + e.width) * W = b[4].n * 1000

\* C10. Box ordering invariant: every 2D box the renderer draws has a width
\* and a height that are not negative.
C10_BoxSizeNotNegative ==
    (RenderDone /\ render_in.fn = "box_2d")
    => \A j \in DOMAIN render_out.elements :
          render_out.elements[j].width >= 0 /\ render_out.elements[j].height >= 0

(***************************************************************************)
(* The Gemini client (utils/gemini_utils.py).  The SDK is outside the      *)
(* repository: what the Client constructor and the API call do is an input *)
(* of a call, drawn from the outcomes the code distinguishes.              *)
(***************************************************************************)
DEFAULT_MODEL_ID == "gemini-1.5-flash-latest"
PRO_MODEL_ID == "gemini-1.5-pro-latest"

Raised(exc, path) == [raised |-> exc, v |-> NoValue, path |-> path]

\* google_genai_sdk.Client(api_key=api_key): a client object is told from
\* another by the key it was constructed with
Client(key) == "Client(api_key=" \o key \o ")"

\* get_gemini_client without the test of the cached client: the key is read
\* and a client constructed at every call
get_gemini_client_uncached(client, key, construct) ==
    IF key \in {"unset", "", "YOUR_GEMINI_API_KEY_HERE"}
    THEN [raised |-> "ValueError", client |-> client]
    ELSE IF construct = "fails" THEN [raised |-> "ConnectionError", client |-> client]
    ELSE [raised |-> "none", client |-> Client(key)]

\* get_gemini_client: the client it returns (or the exception it raises) and
\* the value it leaves in _GEMINI_CLIENT
get_gemini_client(client, key, construct) ==
    IF client # "None" THEN [raised |-> "none", client |-> client]
    ELSE IF key \in {"unset", "", "YOUR_GEMINI_API_KEY_HERE"}
    THEN [raised |-> "ValueError", client |-> client]
    ELSE IF construct = "fails" THEN [raised |-> "ConnectionError", client |-> client]
    ELSE [raised |-> "none", client |-> Client(key)]

RECURSIVE JoinParts(_, _)
\* "".join(part.text for part in parts if hasattr(part, "text"))
JoinParts(parts, k) ==
    IF k > Len(parts) THEN ""
    ELSE (IF parts[k].has_text THEN parts[k].text ELSE "") \o JoinParts(parts, k + 1)

\* the except Exception clause, rethrowing instead of returning a string
OnExceptionReraise(reply) == Raised(reply.type, "except Exception")

\* the except Exception clause
OnException(reply) ==
    Returned("Error generating content with Gemini: " \o reply.type \o " - " \o reply.what,
             "except Exception")

\* the try block of generate_content_with_gemini and its except clauses
CallApi(reply) ==
    CASE reply.kind = "attribute_error" ->
           Returned("SDK usage error: " \o reply.what
                      \o ". This might be due to an unexpected SDK structure.",
                    "except AttributeError")
      [] reply.kind = "exception" -> OnException(reply)
      [] reply.kind = "text" -> Returned(reply.text, "response.text")
      [] reply.kind = "blocked" ->
           Returned("Content blocked by API. Reason: "
                      \o (IF reply.block_reason_message # "" THEN reply.block_reason_message
                          ELSE reply.block_reason),
                    "blocked")
      [] reply.kind = "parts" -> Returned(JoinParts(reply.parts, 1), "parts")
      [] reply.kind = "empty" ->
           Returned("Gemini API returned a response without direct text and no explicit error. Check response parts.",
                    "no text")

\* generate_content_with_gemini: its outcome and the client it leaves
generate_content_with_gemini(client, key, inp) ==
    LET got == get_gemini_client(client, key, inp.construct)
    IN  IF got.raised # "none"
        THEN [out |-> Raised(got.raised, "get_gemini_client"), client |-> got.client]
        ELSE IF inp.image_bytes # "image"
        THEN [out |-> Raised("ValueError", "Invalid image data"), client |-> got.client]
        ELSE [out |-> CallApi(inp.reply), client |-> got.client]

Answers == {"cat", "", "Error: no animal in the picture", "Content blocked"}

SdkReplies ==
    {[kind |-> "attribute_error", what |-> "'Client' object has no attribute 'get_model'"],
     [kind |-> "exception", type |-> "ServerError", what |-> "503 UNAVAILABLE"],
     [kind |-> "exception", type |-> "TimeoutError", what |-> ""],
     [kind |-> "blocked", block_reason |-> "SAFETY", block_reason_message |-> ""],
     [kind |-> "blocked", block_reason |-> "OTHER", block_reason_message |-> "Blocked by policy"],
     [kind |-> "parts", parts |-> <<[has_text |-> TRUE, text |-> "a "],
                                    [has_text |-> FALSE, text |-> ""],
                                    [has_text |-> TRUE, text |-> "cat"]>>],
     [kind |-> "empty"]}
      \cup {[kind |-> "text", text |-> a] : a \in Answers}

VlmInputs ==
    {[image_bytes |-> b, model_id |-> m, construct |-> c, reply |-> r] :
        b \in {"image", "garbage"}, m \in {DEFAULT_MODEL_ID, PRO_MODEL_ID},
        c \in {"ok", "fails"}, r \in SdkReplies}

(***************************************************************************)
(* The state machine of the client: the module is loaded with the key of   *)
(* the environment and no client; then calls follow one another.           *)
(***************************************************************************)
InitVlm ==
    /\ api_key \in {"unset", "YOUR_GEMINI_API_KEY_HERE", "key"}
    /\ gemini_client = "None"
    /\ vlm_in = VlmIdle
    /\ vlm_pc = "idle"
    /\ vlm_out = NotCalled
    /\ ParserAtRest
    /\ RenderAtRest
    /\ BatchAtRest

Called(inp) ==
    LET res == generate_content_with_gemini(gemini_client, api_key, inp)
    IN  /\ vlm_in' = inp
        /\ vlm_out' = res.out
        /\ gemini_client' = res.client
        /\ vlm_pc' = "done"
        /\ UNCHANGED <<api_key, parser_vars, render_vars, batch_vars>>

\* generate_content_with_gemini(image_bytes, prompt_text, model_id)
CallGenerate == \E inp \in VlmInputs : Called(inp)

\* classify_image_with_gemini(image_bytes, prompt_text)
CallClassify == \E inp \in VlmInputs : inp.model_id = DEFAULT_MODEL_ID /\ Called(inp)

\* the values of GEMINI_API_KEY in the environment of the process
EnvironmentKeys == {"unset", "", "YOUR_GEMINI_API_KEY_HERE", "key", "other key"}

\* between two calls the environment variable is set, changed or removed;
\* os.getenv reads it at the call, not when the module is loaded
SetEnvironmentKey ==
    /\ api_key' \in EnvironmentKeys \ {api_key}
    /\ UNCHANGED <<gemini_client, vlm_in, vlm_pc, vlm_out,
                   parser_vars, render_vars, batch_vars>>

NextVlm == CallGenerate \/ CallClassify \/ SetEnvironmentKey

SpecVlm == InitVlm /\ [][NextVlm]_vars

(***************************************************************************)
(* Properties of the client.                                               *)
(***************************************************************************)
VlmDone == vlm_pc = "done"
HasPrefix(s, p) == Len(s) >= Len(p) /\ SubSeq(s, 1, Len(p)) = p

\* the API was called and it failed: the call raised, the content was
\* blocked, or the response held no text
ModelSideFailure ==
    /\ VlmDone
    /\ vlm_out.path \notin {"get_gemini_client", "Invalid image data"}
    /\ vlm_in.reply.kind \in {"attribute_error", "exception", "blocked", "empty"}

ElementsOf(k) ==
    {e \in {render_out.elements[j] : j \in DOMAIN render_out.elements} :
        e.kind # "script" /\ e.z_index = 9 + k}

\* C11. Point projection: a drawn point [y, x] is placed at x/1000 of the
\* width and y/1000 of the height, clamped into the image: its position is
\* never left of 0 or right of the width, never above 0 or below the height.
C11_PointClampedIntoImage ==
    (RenderDone /\ render_in.fn = "point" /\ IsList(render_in.data))
    => \A k \in DOMAIN render_in.items :
          Drawable("point", render_in.items[k])
          => \E e \in ElementsOf(k) :
                LET y == render_in.items[k].o[K_point].l[1].n
                    x == render_in.items[k].o[K_point].l[2].n
                IN  /\ e.left = Clamp(0, FullPercent, x)
                    /\ e.top = Clamp(0, FullPercent, y)

\* C12. Degenerate box fallback: no drawn 2D box is smaller than 4 px on
\* either axis of the image, and a box whose projected width and height are
\* both below 4 px is drawn as the centered box of half the image.
C12_DegenerateBoxRaised ==
    (RenderDone /\ render_in.fn = "box_2d" /\ IsList(render_in.data))
    => \A k \in DOMAIN render_in.items :
          Drawable("box_2d", render_in.items[k])
          => \E e \in ElementsOf(k) :
                LET b == render_in.items[k].o[K_box_2d].l
                    W == render_in.pil_image.width
                    H == render_in.pil_image.height
                IN  /\ e.width * W >= 4 * FullPercent
                    /\ e.height * H >= 4 * FullPercent
                    /\ ((b[4].n - b[2].n) * W < 4 * FullPercent
                          /\ (b[3].n - b[1].n) * H < 4 * FullPercent)
                       => /\ 4 * e.left = FullPercent /\ 4 * e.top = FullPercent
                          /\ 2 * e.width = FullPercent /\ 2 * e.height = FullPercent

\* an item for which generate_3d_box_html draws a rectangle: a label and a
\* box_3d list of nine values whose centre and size in x and y are numbers
Draws3d(item) ==
    /\ IsDict(item) /\ HasKey(item, K_box_3d) /\ HasKey(item, K_label)
    /\ IsList(item.o[K_box_3d]) /\ Len(item.o[K_box_3d].l) = 9
    /\ \A c \in {1, 2, 4, 5} : IsNum(item.o[K_box_3d].l[c])
NineNumbers(item) ==
    Draws3d(item) /\ \A c \in 1..9 : IsNum(item.o[K_box_3d].l[c])

\* a value in thousandths, brought into [0, 1]
Unit(m) == IF m < 0 THEN 0 ELSE IF m > 1000 THEN 1000 ELSE m

\* C13 (as stated). 3D box projection: for every box_3d of nine numbers the
\* rectangle has, with centre and size first clamped into [0,1],
\* width = x_size, height = y_size, left = x_center - x_size/2 and
\* top = y_center - y_size/2, as fractions of the image.
C13_RectCentredOnBox ==
    (RenderDone /\ render_in.fn = "box_3d")
    => LET drawn == SelectSeq(render_in.items, Draws3d)
       IN  /\ Len(render_out.elements) = Len(drawn)
           /\ \A j \in DOMAIN drawn :
                 NineNumbers(drawn[j])
                 => LET p == drawn[j].o[K_box_3d].l
                        e == render_out.elements[j]
                    IN  /\ e.width = Unit(p[4].n) * 1000
                        /\ e.height = Unit(p[5].n) * 1000
                        /\ e.x = (2 * Unit(p[1].n) - Unit(p[4].n)) * 500
                        /\ e.y = (2 * Unit(p[2].n) - Unit(p[5].n)) * 500

\* C13. 3D box projection: for every box_3d of nine numbers the rectangle
\* has, with centre and size first clamped into [0,1], width = x_size,
\* height = y_size, and its left and top are x_center - x_size/2 and
\* y_center - y_size/2 moved into the image: left is at least 0 and at most
\* 1 - width, top at least 0 and at most 1 - height.  The other five
\* parameters do not enter.
C13_RectCentredAndKeptInside ==
    (RenderDone /\ render_in.fn = "box_3d")
    => LET drawn == SelectSeq(render_in.items, Draws3d)
       IN  /\ Len(render_out.elements) = Len(drawn)
           /\ \A j \in DOMAIN drawn :
                 NineNumbers(drawn[j])
                 => LET p == drawn[j].o[K_box_3d].l
                        e == render_out.elements[j]
                        width == Unit(p[4].n) * 1000
                        height == Unit(p[5].n) * 1000
                        left == (2 * Unit(p[1].n) - Unit(p[4].n)) * 500
                        top == (2 * Unit(p[2].n) - Unit(p[5].n)) * 500
                    IN  /\ e.width = width
                        /\ e.height = height
                        /\ e.x = Max(0, Min(FullPercent - width, left))
                        /\ e.y = Max(0, Min(FullPercent - height, top))

\* C13 (witness): two boxes of nine numbers that differ in z_center, z_size,
\* roll, pitch and yaw only have been drawn as the same rectangle, of the
\* box's size and moved left to end at the right edge of the image.
C13_Witness ==
    /\ RenderDone /\ render_in.fn = "box_3d"
    /\ Len(render_in.items) = 2
    /\ NineNumbers(render_in.items[1]) /\ NineNumbers(render_in.items[2])
    /\ render_in.items[1] # render_in.items[2]
    /\ Len(render_out.elements) = 2
    /\ render_out.elements[1] = render_out.elements[2]
    /\ render_out.elements[1].width = 400000
    /\ render_out.elements[1].x = 600000
    /\ render_out.elements[1].y = 0

\* an item with a label whose box_3d is a list of another length than nine
WrongArity3d(item) ==
    /\ IsDict(item) /\ HasKey(item, K_box_3d) /\ HasKey(item, K_label)
    /\ IsList(item.o[K_box_3d]) /\ Len(item.o[K_box_3d].l) # 9

IsMalformedLine(d) == d.kind = "malformed"

\* C14. 3D box arity: a labelled item whose box_3d list has not exactly nine
\* elements draws no rectangle and adds one "Malformed box_3d data" line that
\* names the length; the renderer does not raise and the other items of the
\* list are drawn all the same.
C14_WrongArityReportedNotFatal ==
    (RenderDone /\ render_in.fn = "box_3d")
    => LET wrong == SelectSeq(render_in.items, WrongArity3d)
           lines == SelectSeq(render_out.details, IsMalformedLine)
       IN  /\ render_out.raised = "none"
           /\ Len(render_out.elements) = Len(SelectSeq(render_in.items, Draws3d))
           /\ Len(lines) = Len(wrong)
           /\ \A j \in DOMAIN wrong :
                 /\ lines[j].what = Len(wrong[j].o[K_box_3d].l)
                 /\ lines[j].item = wrong[j].o[K_label]

\* C14 (witness): a box_3d of eight elements followed by a box of nine
\* numbers has been rendered: one line naming the length 8, one rectangle.
C14_Witness ==
    /\ RenderDone /\ render_in.fn = "box_3d"
    /\ Len(render_in.items) = 2
    /\ WrongArity3d(render_in.items[1])
    /\ NineNumbers(render_in.items[2])
    /\ render_out.raised = "none"
    /\ Len(render_out.elements) = 1
    /\ render_out.details[1].kind = "malformed"
    /\ render_out.details[1].what = 8

SegmentationDone == RenderDone /\ render_in.fn = "segmentation"

IsCanvas(e) == e.kind = "canvas"
Canvases == SelectSeq(render_out.elements, IsCanvas)

\* C15. Palette round-robin: the palette has ten entries; the canvas of the
\* item at list position i (skipped items counted) has entry i mod 10 as the
\* background of its label, and the script that fills its mask takes the same
\* entry, as RGB and as the fallback fill; so two canvases have one colour
\* exactly when their positions differ by a multiple of ten.
C15_PaletteRoundRobin ==
    SegmentationDone
    => /\ Len(SEGMENTATION_COLORS) = 10
       /\ \A j \in DOMAIN render_out.elements :
             LET e == render_out.elements[j]
             IN  IF e.kind = "canvas"
                 THEN /\ e.color = SEGMENTATION_COLORS[((e.z_index - 10) % 10) + 1]
                      /\ e.label = render_in.items[e.z_index - 9].o[K_label]
                 ELSE /\ j > 1
                      /\ render_out.elements[j - 1].kind = "canvas"
                      /\ render_out.elements[j - 1].canvas_id = e.canvas_id
                      /\ e.color = render_out.elements[j - 1].color
                      /\ e.color_rgb = hex_to_rgb(Chars(e.color))
       /\ \A a, b \in DOMAIN Canvases :
             (Canvases[a].color = Canvases[b].color)
                <=> ((Canvases[a].z_index - Canvases[b].z_index) % 10 = 0)

\* C15 (witness): a list of more than ten masks whose second item is skipped
\* has been rendered: the masks at positions 0 and 10 both have the first
\* colour of the palette, filled as (230, 25, 75), and the mask at position 2
\* has the third colour.
C15_Witness ==
    /\ SegmentationDone
    /\ Len(render_in.items) > 10
    /\ render_in.items[2] = Null
    /\ Len(Canvases) = Len(render_in.items) - 1
    /\ \E a, b, c \in DOMAIN Canvases :
          /\ Canvases[a].z_index = 10 /\ Canvases[a].color = "#E6194B"
          /\ Canvases[b].z_index = 20 /\ Canvases[b].color = "#E6194B"
          /\ Canvases[c].z_index = 12 /\ Canvases[c].color = "#3CB44B"
    /\ render_out.elements[2].kind = "script"
    /\ render_out.elements[2].color_rgb = <<230, 25, 75>>

\* an item with a box_2d of four numbers, a mask that is a string and a label
WellFormedMask(item) ==
    /\ IsDict(item)
    /\ HasKey(item, K_box_2d) /\ HasKey(item, K_mask) /\ HasKey(item, K_label)
    /\ IsList(item.o[K_box_2d]) /\ Len(item.o[K_box_2d].l) = 4
    /\ \A k \in 1..4 : Numeric(item.o[K_box_2d].l[k])
    /\ IsStr(item.o[K_mask])

\* C16. Segmentation canvases: when every item of the list has a box_2d of
\* four numbers, a string mask and a label, the output holds one canvas per
\* item, in the order of the list; the canvas of item i has the id
\* mask_canvas_<image_id>_<i> and carries the label of the item, and the ids
\* of two items differ.
C16_OneCanvasPerItem ==
    (/\ SegmentationDone
     /\ IsList(render_in.data)
     /\ \A k \in DOMAIN render_in.items : WellFormedMask(render_in.items[k]))
    => /\ render_out.raised = "none"
       /\ Len(Canvases) = Len(render_in.items)
       /\ \A k \in DOMAIN Canvases :
             /\ Canvases[k].canvas_id =
                  Chars("mask_canvas_") \o render_in.image_id \o Chars("_")
                    \o IntToDigits(k - 1)
             /\ Canvases[k].label = render_in.items[k].o[K_label]
       /\ \A a, b \in DOMAIN Canvases :
             a # b => Canvases[a].canvas_id # Canvases[b].canvas_id

\* C16 (witness): the two masks of the test have been rendered under the
\* image id test_image_new: two canvases, with the ids the test looks for and
\* the two labels.
C16_Witness ==
    /\ SegmentationDone
    /\ render_in.image_id = Chars("test_image_new")
    /\ Len(render_in.items) = 2
    /\ render_out.raised = "none"
    /\ Len(Canvases) = 2
    /\ Canvases[1].canvas_id = Chars("mask_canvas_test_image_new_0")
    /\ Canvases[2].canvas_id = Chars("mask_canvas_test_image_new_1")
    /\ Canvases[1].label = Str(Chars("Test Object 1"))
    /\ Canvases[2].label = Str(Chars("Test Object 2"))

\* a mask given as a flat list of coordinates
PolygonMask(item) ==
    /\ IsDict(item) /\ HasKey(item, K_mask) /\ HasKey(item, K_label)
    /\ HasKey(item, K_box_2d)
    /\ IsList(item.o[K_mask])
    /\ \A k \in DOMAIN item.o[K_mask].l : Numeric(item.o[K_mask].l[k])

\* C17. Polygon minimum size: a mask given as a flat coordinate list of
\* length 4 is rejected, nothing is drawn for it and the renderer returns;
\* one of length 6 is accepted and drawn: its canvas and the script that
\* draws into it are both in the output.
C17_PolygonMinimumSize ==
    (/\ SegmentationDone
     /\ Len(render_in.items) = 1
     /\ PolygonMask(render_in.items[1]))
    => /\ render_out.raised = "none"
       /\ Len(render_in.items[1].o[K_mask].l) = 4 => render_out.elements = <<>>
       /\ Len(render_in.items[1].o[K_mask].l) = 6
            => /\ Len(render_out.elements) = 2
               /\ render_out.elements[1].kind = "canvas"
               /\ render_out.elements[2].kind = "script"

\* C19. Non-empty label: every annotation element a renderer emits (point,
\* 2D box, 3D box, segmentation mask) carries a label that is not the empty
\* string; an item whose label is the empty string gives no element.
C19_LabelNeverEmpty ==
    RenderDone
    => \A j \in DOMAIN render_out.elements :
          render_out.elements[j].kind # "script"
             => render_out.elements[j].label # Str(<<>>)

(***************************************************************************)
(* The classification run of app.py: the handler of the classify button.   *)
(* It empties the temp directory, extracts the upload into it, collects    *)
(* the image files, sends them one by one to the model and shows the       *)
(* rows; the temp directory is removed on every way out.                   *)
(***************************************************************************)
\* the most files an upload holds
MaxImages == 3

\* what a file of an upload can be: its extension and what opening and
\* decoding it gives
FileKinds ==
    {[ext |-> ".png", content |-> "image"],
     [ext |-> ".JPG", content |-> "garbage"],
     [ext |-> ".gif", content |-> "unreadable"],
     [ext |-> ".txt", content |-> "image"]}

\* file.lower().endswith(('.png', '.jpg', '.jpeg', '.gif', '.bmp'))
IsImageFile(file) ==
    (IF file.ext = ".JPG" THEN ".jpg" ELSE file.ext)
        \in {".png", ".jpg", ".jpeg", ".gif", ".bmp"}

\* the uploads: none, a file that is no ZIP archive, an archive whose
\* extraction fails, and the archives of at most MaxImages files
Uploads ==
    {NoUpload, [kind |-> "bad"], [kind |-> "zip", extract |-> "fails", files |-> <<>>]}
      \cup {[kind |-> "zip", extract |-> "ok",
             files |-> [k \in 1..Len(kinds) |->
                          [path |-> k, ext |-> kinds[k].ext,
                           content |-> kinds[k].content]]] :
              kinds \in SeqsUpTo(FileKinds, MaxImages)}

\* a temp directory an earlier run has left behind
StaleTempDir ==
    [exists |-> TRUE, files |-> <<[path |-> 0, ext |-> ".png", content |-> "image"]>>]

\* the replies of the SDK the runs are checked with
BatchReplies ==
    {[kind |-> "text", text |-> "cat"],
     [kind |-> "exception", type |-> "ServerError", what |-> "503 UNAVAILABLE"]}

\* cleanup_temp_dir: the directory afterwards, and whether the warning of a
\* failed removal was shown
cleanup_temp_dir(dir, rmtree) ==
    IF ~dir.exists THEN [dir |-> dir, warned |-> FALSE]
    ELSE IF rmtree = "ok" THEN [dir |-> NoTempDir, warned |-> FALSE]
    ELSE [dir |-> dir, warned |-> TRUE]

Message(key) == [key |-> key]
CleanupWarning(cleaned) ==
    IF cleaned.warned THEN <<Message("cleanup_temp_dir_warning")>> ELSE <<>>

\* the file at a path of the temp directory
FileAt(dir, path) ==
    dir.files[CHOOSE k \in DOMAIN dir.files : dir.files[k].path = path]

\* the k-th smallest of a set of paths
KthPath(paths, k) ==
    CHOOSE p \in paths : Cardinality({q \in paths : q < p}) = k - 1

\* zip_ref.extractall(TEMP_DIR) into the directory as it is: a file of the
\* archive replaces the file at the same path, the other files stay; the
\* files are held in the order of their paths
extractall(dir, zip_files) ==
    LET old == {dir.files[k].path : k \in DOMAIN dir.files}
        new == {zip_files[k].path : k \in DOMAIN zip_files}
        all == old \cup new
    IN  [exists |-> TRUE,
         files |-> [k \in 1..Cardinality(all) |->
                      LET p == KthPath(all, k)
                      IN  IF p \in new
                          THEN zip_files[CHOOSE j \in DOMAIN zip_files :
                                            zip_files[j].path = p]
                          ELSE dir.files[CHOOSE j \in DOMAIN dir.files :
                                            dir.files[j].path = p]]]

\* str.strip() of the prompt leaves nothing
BlankPrompt(text) == \A k \in 1..Len(text) : SubSeq(text, k, k) = " "

InitBatch ==
    /\ language \in {"en", "he"}
    /\ uploaded_zip_file \in Uploads
    /\ prompt_text \in {"what animal?", "  "}
    /\ temp_dir \in {NoTempDir, StaleTempDir}
    /\ run_pc = "idle"
    /\ image_files = <<>>
    /\ loop_i = 0
    /\ results_data = <<>>
    /\ image_files_processed_paths = <<>>
    /\ shown = <<>>
    /\ api_key \in {"unset", "key"}
    /\ gemini_client = "None"
    /\ vlm_in = VlmIdle
    /\ vlm_pc = "idle"
    /\ vlm_out = NotCalled
    /\ ParserAtRest
    /\ RenderAtRest

\* the way out of the run through the finally clause
LeaveRun(dir, messages, rmtree) ==
    LET cleaned == cleanup_temp_dir(dir, rmtree)
    IN  /\ temp_dir' = cleaned.dir
        /\ shown' = messages \o CleanupWarning(cleaned)
        /\ run_pc' = "done"

\* the button is clicked: the checks of the inputs, the cleanup, the
\* extraction and the search for image files
ClickClassify ==
    /\ run_pc = "idle"
    /\ UNCHANGED <<language, uploaded_zip_file, prompt_text, loop_i,
                   parser_vars, render_vars, vlm_vars>>
    /\ results_data' = <<>>
    /\ image_files_processed_paths' = <<>>
    /\ IF uploaded_zip_file = NoUpload
       THEN /\ shown' = <<Message("error_no_zip")>>
            /\ run_pc' = "done"
            /\ UNCHANGED <<temp_dir, image_files>>
       ELSE IF BlankPrompt(prompt_text)
       THEN /\ shown' = <<Message("error_no_prompt")>>
            /\ run_pc' = "done"
            /\ UNCHANGED <<temp_dir, image_files>>
       ELSE \E rmtree_before, rmtree_after \in {"ok", "fails"} :
              LET cleaned == cleanup_temp_dir(temp_dir, rmtree_before)
                  made == [exists |-> TRUE, files |-> cleaned.dir.files]
                  messages == <<Message("info_processing_images")>>
                                \o CleanupWarning(cleaned)
                  extracted == extractall(made, uploaded_zip_file.files)
                  found == SelectSeq(extracted.files, IsImageFile)
              IN  IF uploaded_zip_file.kind = "bad"
                  THEN /\ LeaveRun(made, Append(messages, Message("error_bad_zip")),
                                   rmtree_after)
                       /\ UNCHANGED image_files
                  ELSE IF uploaded_zip_file.extract = "fails"
                  THEN /\ LeaveRun(made,
                                   Append(messages,
                                          Message("error_unexpected_zip_processing")),
                                   rmtree_after)
                       /\ UNCHANGED image_files
                  ELSE IF found = <<>>
                  THEN /\ LeaveRun(extracted,
                                   Append(messages, Message("warning_no_valid_images")),
                                   rmtree_after)
                       /\ image_files' = <<>>
                  ELSE /\ temp_dir' = extracted
                       /\ shown' = messages
                       /\ image_files' = [k \in DOMAIN found |-> found[k].path]
                       /\ run_pc' = "loop"

\* a row of results_data
Row(image_name, classification, image_bytes) ==
    [image_name |-> image_name, prompt |-> prompt_text,
     classification |-> classification, image_bytes |-> image_bytes]

\* the text of a row of an image that failed: the localized message of the
\* key with the message of the exception in it; the English lead-in is cut
\* off, which leaves the text of the other language whole
ErrorText(key, exc) ==
    [key |-> key, message |-> exc.path, lead_in |-> language # "en"]

\* any exception ends the loop
BreaksOnAnyError(exc) == exc # "none"

\* the except clause that holds the break: the one of ConnectionError
Breaks(exc) == exc = "ConnectionError"

\* one pass of the image loop: the file is read and sent to the model
ProcessImage ==
    /\ run_pc = "loop"
    /\ loop_i < Len(image_files)
    /\ \E construct \in {"ok", "fails"}, reply \in BatchReplies :
          LET image_path == image_files[loop_i + 1]
              file == FileAt(temp_dir, image_path)
              res == IF file.content = "unreadable"
                     THEN [out |-> Raised("OSError", "Permission denied"),
                           client |-> gemini_client]
                     ELSE generate_content_with_gemini(
                            gemini_client, api_key,
                            [image_bytes |-> file.content, model_id |-> DEFAULT_MODEL_ID,
                             construct |-> construct, reply |-> reply])
              exc == res.out.raised
          IN  /\ gemini_client' = res.client
              /\ loop_i' = loop_i + 1
              /\ results_data' =
                   CASE exc = "none" ->
                          Append(results_data, Row(image_path, res.out.v, file.content))
                     [] exc = "ValueError" ->
                          Append(results_data,
                                 Row(image_path,
                                     ErrorText("error_skip_image_invalid_data", res.out),
                                     "None"))
                     [] exc = "ConnectionError" -> results_data
                     [] OTHER ->
                          Append(results_data,
                                 Row(image_path,
                                     ErrorText("error_unexpected_processing", res.out),
                                     "None"))
              /\ image_files_processed_paths' =
                   IF exc = "none" THEN Append(image_files_processed_paths, image_path)
                   ELSE image_files_processed_paths
              /\ shown' =
                   CASE exc = "none" -> shown
                     [] exc = "ValueError" ->
                          Append(shown, [key |-> "error_skip_image_invalid_data",
                                         image_name |-> image_path])
                     [] exc = "ConnectionError" ->
                          Append(shown, [key |-> "error_api_connection",
                                         image_name |-> image_path])
                     [] OTHER ->
                          Append(shown, [key |-> "error_unexpected_processing",
                                         image_name |-> image_path])
              /\ run_pc' = IF Breaks(exc) \/ loop_i + 1 = Len(image_files)
                           THEN "summary" ELSE "loop"
    /\ UNCHANGED <<language, uploaded_zip_file, prompt_text, temp_dir, image_files,
                   api_key, vlm_in, vlm_pc, vlm_out, parser_vars, render_vars>>

\* the summary counting every image that has a row
processed_count_of_rows == Len(results_data)

\* processed_count=len(image_files_processed_paths) of the summary line
processed_count == Len(image_files_processed_paths)

\* after the loop: the summary line, the rows, and the finally clause
FinishRun ==
    /\ run_pc = "summary"
    /\ \E rmtree \in {"ok", "fails"} :
          LeaveRun(temp_dir,
                   shown \o <<[key |-> "status_processed_summary",
                               processed_count |-> processed_count,
                               total_images |-> Len(image_files)],
                              IF results_data # <<>>
                              THEN [key |-> "display_results", rows |-> Len(results_data)]
                              ELSE Message("info_no_images_processed")>>,
                   rmtree)
    /\ UNCHANGED <<language, uploaded_zip_file, prompt_text, image_files, loop_i,
                   results_data, image_files_processed_paths,
                   parser_vars, render_vars, vlm_vars>>

\* what is uploaded after a run: nothing, a broken archive, or an archive
\* of at most one file
LaterUploads ==
    {u \in Uploads : u.kind = "zip" => Len(u.files) <= 1}

\* the script runs again without the button (another file is uploaded): the
\* page is built anew, the variables of the last run are gone, and the last
\* lines of the script clean up a temp directory that is still there
RerunScript ==
    /\ run_pc = "done"
    /\ \E rmtree \in {"ok", "fails"}, upload \in LaterUploads :
          LET cleaned == cleanup_temp_dir(temp_dir, rmtree)
          IN  /\ temp_dir' = cleaned.dir
              /\ shown' = CleanupWarning(cleaned)
              /\ uploaded_zip_file' = upload
    /\ run_pc' = "idle"
    /\ image_files' = <<>>
    /\ loop_i' = 0
    /\ results_data' = <<>>
    /\ image_files_processed_paths' = <<>>
    /\ UNCHANGED <<language, prompt_text, parser_vars, render_vars, vlm_vars>>

NextBatch == ClickClassify \/ ProcessImage \/ FinishRun \/ RerunScript

SpecBatch == InitBatch /\ [][NextBatch]_vars

(***************************************************************************)
(* Properties of the classification run, checked under SpecBatch.          *)
(***************************************************************************)
\* the last message on the page reports a failure of the image at path p
ReportsFailure(messages, p) ==
    /\ messages # <<>>
    /\ messages[Len(messages)].key \in {"error_skip_image_invalid_data",
                                         "error_unexpected_processing"}
    /\ messages[Len(messages)].image_name = p

\* the positions of the messages that report a connection error
ConnectionErrors ==
    {m \in DOMAIN shown : shown[m].key = "error_api_connection"}

\* a pass of the loop over the image at path p that failed without a
\* connection error adds one row for p that holds the error text and no
\* image, and the loop goes on unless p was the last image
FailureGivesRowAndGoesOn ==
    (/\ run_pc = "loop"
     /\ loop_i' = loop_i + 1
     /\ ReportsFailure(shown', image_files[loop_i + 1]))
    => /\ Len(results_data') = Len(results_data) + 1
       /\ SubSeq(results_data', 1, Len(results_data)) = results_data
       /\ LET row == results_data'[Len(results_data')]
          IN  /\ row.image_name = image_files[loop_i + 1]
              /\ row.image_bytes = "None"
              /\ row.classification.message # ""
       /\ run_pc' = IF loop_i + 1 < Len(image_files) THEN "loop" ELSE "summary"

\* the loop has ended before the last image only after a connection error,
\* and the image of a connection error and the images after it have no row
OnlyConnectionErrorEndsLoop ==
    /\ (run_pc \in {"summary", "done"} /\ loop_i < Len(image_files))
          => ConnectionErrors # {}
    /\ \A m \in ConnectionErrors :
          /\ run_pc \in {"summary", "done"}
          /\ shown[m].image_name = image_files[loop_i]
          /\ \A r \in DOMAIN results_data :
                \E k \in 1..(loop_i - 1) : results_data[r].image_name = image_files[k]

\* C18. Batch failure policy: an image whose processing fails with an error
\* that is no connection error gets a result row holding the error text and
\* the loop goes on to the next image; only a ConnectionError ends the loop
\* early, and then neither that image nor a later one gets a row.
C18_BatchFailurePolicy ==
    /\ []OnlyConnectionErrorEndsLoop
    /\ [][FailureGivesRowAndGoesOn]_vars

\* C18 (witness): of three images the first could not be read and has a row
\* with the error text, the second met a connection error, and the run is
\* over with that one row: the second and the third image have none.
C18_Witness ==
    /\ run_pc = "done"
    /\ Len(image_files) = 3
    /\ loop_i = 2
    /\ Len(results_data) = 1
    /\ results_data[1].image_name = image_files[1]
    /\ results_data[1].classification.key = "error_unexpected_processing"
    /\ ConnectionErrors # {}

\* the value of the greedy bracket-delimited substring of the cleaned text:
\* of the one from the first [ to the last ] when it parses after the comma
\* repair, else of the one from the first { to the last }
BracketScanValue ==
    LET parsing == SelectSeq(BracketCandidates,
                             LAMBDA c : JsonLoads(FixCommas(c)).ok)
    IN  PostProcessFixed(JsonLoads(FixCommas(parsing[1])).v)

\* C20. Bracket-scan fallback: whenever the strict parse and the
\* comma-repaired parse of the whole text both fail and the greedy
\* bracket-delimited substring of the text parses as JSON after the comma
\* repair, the parser returns exactly that value, with the box_2d repair
\* applied; no other strategy gives a different result first.
C20_BracketScanDecides ==
    (/\ ParseDone
     /\ StrictParseFails
     /\ CommaRepairFails
     /\ ~EveryCandidateFails)
    => parse_out.v = BracketScanValue

(***************************************************************************)
(* Further properties of the parser, checked under SpecParse.              *)
(***************************************************************************)
IsOpening(c) == c \in {"[", "{"}
IsBracket(c) == c \in {"[", "]", "{", "}"}

\* the position of the first opening bracket of the text, 0 when it has none
FirstOpening(s) ==
    IF \E k \in DOMAIN s : IsOpening(s[k])
    THEN CHOOSE k \in DOMAIN s :
             IsOpening(s[k]) /\ \A m \in 1..(k - 1) : ~IsOpening(s[m])
    ELSE 0

\* the text is prose without brackets followed by one JSON array or object
ProseThenDocument ==
    /\ FirstOpening(json_output_str) > 1
    /\ \A m \in 1..(FirstOpening(json_output_str) - 1) : ~IsBracket(json_output_str[m])
    /\ JsonLoads(From(json_output_str, FirstOpening(json_output_str))).ok

\* the value of the text truncated at its first opening bracket
DocumentValue ==
    JsonLoads(From(json_output_str, FirstOpening(json_output_str))).v

\* C21. Leading-prose stripping: for a text made of bracket-free prose
\* followed by one valid JSON array or object, the parser returns the value
\* of that whole document, the text truncated at its first [ or { (as it is
\* or with the box_2d repair), and not the value of a part of it.
C21_LeadingProseStripped ==
    (ParseDone /\ ProseThenDocument)
    => parse_out.v \in {DocumentValue, PostProcessFixed(DocumentValue)}

\* the positions at which the lines of a text start
LineStarts(s) ==
    {a \in DOMAIN s : a = 1 \/ s[a - 1] = NL}

\* the line that starts at position a, without its newline
LineAt(s, a) ==
    IF \E k \in a..Len(s) : s[k] = NL
    THEN SubSeq(s, a, (CHOOSE k \in a..Len(s) :
                          s[k] = NL /\ \A m \in a..(k - 1) : s[m] # NL) - 1)
    ELSE From(s, a)

\* the starts of the lines that begin with [ or { and are JSON on their own
JsonLines ==
    {a \in LineStarts(CleanedText) :
        /\ IsOpening(CleanedText[a])
        /\ JsonLoads(LineAt(CleanedText, a)).ok}

FirstJsonLineValue ==
    JsonLoads(LineAt(CleanedText,
                     CHOOSE a \in JsonLines : \A b \in JsonLines : a <= b)).v

\* the text cut at its first opening bracket does not parse either
ProseStrippingFails ==
    \/ FirstOpening(CleanedText) = 0
    \/ ~JsonLoads(FixCommas(From(CleanedText, FirstOpening(CleanedText)))).ok

\* C22. Line scan: when the strict parse and the structural repairs (the
\* comma repair, the stripping of leading prose) fail and some line of the
\* text starts with [ or { and is valid JSON on its own, the parser returns
\* the value of the first such line (as it is or with the box_2d repair),
\* also when other lines hold unmatched or unrelated brackets.
C22_FirstJsonLineReturned ==
    (/\ ParseDone
     /\ StrictParseFails
     /\ CommaRepairFails
     /\ ProseStrippingFails
     /\ JsonLines # {})
    => parse_out.v \in {FirstJsonLineValue, PostProcessFixed(FirstJsonLineValue)}

\* the entries of the details list that describe an item that was drawn
NormalDetails(out) ==
    Cardinality({j \in DOMAIN out.details : out.details[j].kind = "detail"})

\* C23. Stage atomicity per item: a renderer either emits the overlay
\* element of an item together with its normal details entry, or emits no
\* overlay element and records an error diagnostic; so the call returns,
\* and there are as many overlay elements as normal details entries: no
\* item has an overlay element and is also reported as an error.
C23_OverlayOrDiagnostic ==
    (RenderDone /\ ListGiven)
    => /\ render_out.raised = "none"
       /\ Overlays(render_out) = NormalDetails(render_out)

\* C25. 3D rectangle stays inside the image: for every box_3d of nine
\* numbers, whatever their values, the rectangle drawn for it has x, y, width
\* and height of at least 0, and x + width and y + height of at most 100
\* percent of the image.
C25_RectInsideImage ==
    (RenderDone /\ render_in.fn = "box_3d")
    => LET drawn == SelectSeq(render_in.items, Draws3d)
       IN  \A j \in DOMAIN drawn :
              NineNumbers(drawn[j])
              => /\ j \in DOMAIN render_out.elements
                 /\ LET e == render_out.elements[j]
                    IN  /\ e.kind = "rect"
                        /\ 0 <= e.x /\ 0 <= e.y
                        /\ 0 <= e.width /\ 0 <= e.height
                        /\ e.x + e.width <= FullPercent
                        /\ e.y + e.height <= FullPercent

\* C25 (witness): a box of nine numbers with a centre right of the image, a
\* centre above it and a size of twice the image has been drawn as a
\* rectangle that starts at the top left corner and is as wide as the image.
C25_Witness ==
    /\ RenderDone /\ render_in.fn = "box_3d"
    /\ Len(render_in.items) >= 1
    /\ NineNumbers(render_in.items[1])
    /\ render_in.items[1].o[K_box_3d].l[1].n > 1000
    /\ render_in.items[1].o[K_box_3d].l[2].n < 0
    /\ render_in.items[1].o[K_box_3d].l[4].n > 1000
    /\ Len(render_out.elements) >= 1
    /\ render_out.elements[1].x = 0
    /\ render_out.elements[1].y = 0
    /\ render_out.elements[1].width = FullPercent
    /\ render_out.elements[1].height = FullPercent \div 2

\* the value the successful parse gave, before the repair: of the cleaned
\* text, of the comma-repaired text, or of the first bracket-scan candidate
\* that parses
ParsedBeforeRepair ==
    CASE parse_out.path = "strict" -> JsonLoads(CleanedText).v
      [] parse_out.path = "comma" -> JsonLoads(FixCommas(CleanedText)).v
      [] parse_out.path \in {"scan_array", "scan_object"} ->
            LET first == CHOOSE j \in 1..Len(BracketCandidates) :
                            /\ JsonLoads(FixCommas(BracketCandidates[j])).ok
                            /\ \A k \in 1..(j - 1) :
                                  ~JsonLoads(FixCommas(BracketCandidates[k])).ok
            IN  JsonLoads(FixCommas(BracketCandidates[first])).v
      [] OTHER -> NoValue

\* `after` is `before` with nothing changed but the box_2d of the list items
\* that hold a nested box
RepairFrame(before, after) ==
    IF before.t = "list"
    THEN /\ after.t = "list"
         /\ Len(after.l) = Len(before.l)
         /\ \A i \in 1..Len(before.l) :
               IF HoldsNestedBox(before.l[i])
               THEN /\ after.l[i].t = "obj"
                    /\ DOMAIN after.l[i].o = DOMAIN before.l[i].o
                    /\ after.l[i].o[K_box_2d] = FlatOf(before.l[i].o[K_box_2d].l[1])
                    /\ \A k \in DOMAIN before.l[i].o \ {K_box_2d} :
                          after.l[i].o[k] = before.l[i].o[k]
               ELSE after.l[i] = before.l[i]
    ELSE after = before

\* C26. Post-parse repair frame: on the strict, the comma-repaired and the
\* bracket-scan path alike, the returned value is the parsed value with only
\* the box_2d of the list items changed whose box_2d is a non-empty list that
\* starts with an object holding ymin, xmin, ymax and xmax; every other item,
\* every other key, the order and the length are as parsed, and a value that
\* is no list is returned as parsed.
C26_RepairFrame ==
    (ParseDone /\ parse_out.path \in {"strict", "comma", "scan_array", "scan_object"})
    => RepairFrame(ParsedBeforeRepair, parse_out.v)

\* C26 (witness): a bare two-item list, the first item with a nested box
\* followed by a stray text and the second with a coordinate object that
\* lacks two keys, came back with the first box flat and the second item as
\* it was.
C26_Witness ==
    /\ ParseDone /\ origin.wrap = "bare"
    /\ parse_out.path = "strict"
    /\ origin.v = List(<<BoxItem(BoxNestedExtra, L_dog), BoxItem(BoxPartial, L_dog)>>)
    /\ ParsedBeforeRepair = origin.v
    /\ parse_out.v = List(<<BoxItem(List(<<IntNum(5), IntNum(6), IntNum(7), IntNum(8)>>), L_dog),
                            BoxItem(BoxPartial, L_dog)>>)

\* the item the reconstruction builds of a coordinate group and a label
PairedItem(group, label) ==
    BoxItem(List(<<IntNum(group[1]), IntNum(group[2]), IntNum(group[3]), IntNum(group[4])>>),
            label)

\* C27. Structure reconstruction pairing: when the strict parse and the comma
\* repair fail and the text holds N >= 1 coordinate groups (ymin, xmin, ymax,
\* xmax in that order) and M >= 1 labels, the parser returns, from the
\* reconstruction step, a list of exactly min(N, M) items, item i made of the
\* four integers of the i-th group and of the i-th label of the text; so a
\* label of an object without coordinates is given to the first box, a box
\* without a label is dropped, and a group may take its numbers from two
\* objects.
C27_ReconstructionPairsInOrder ==
    ParseDone =>
        LET groups == FindCoords(CleanedText, 1)
            labels == FindLabels(CleanedText, 1)
        IN  /\ (StrictParseFails /\ CommaRepairFails /\ Len(groups) >= 1 /\ Len(labels) >= 1)
                  => parse_out.path = "reconstruct"
            /\ parse_out.path = "reconstruct"
                  => /\ Len(groups) >= 1 /\ Len(labels) >= 1
                     /\ parse_out.v.t = "list"
                     /\ Len(parse_out.v.l) = Min(Len(groups), Len(labels))
                     /\ \A i \in 1..Len(parse_out.v.l) :
                           parse_out.v.l[i] = PairedItem(groups[i], labels[i])
            /\ json_output_str = TextProseLabelFirst
                  => parse_out.v = List(<<BoxItem(BoxFlat, L_x)>>)
            /\ json_output_str = TextTwoBoxesOneLabel
                  => parse_out.v = List(<<BoxItem(BoxFlat, L_dog)>>)
            /\ json_output_str = TextTwoLabelsInBox
                  => parse_out.v = List(<<BoxItem(BoxFlat, L_dog),
                                          PairedItem(<<5, 6, 7, 8>>, L_x)>>)
            /\ json_output_str = TextCoordsAcrossObjects
                  => parse_out.v = List(<<PairedItem(<<1, 6, 7, 8>>, L_x)>>)

\* C27 (witness): a text with a labelled object without coordinates before a
\* labelled box went to the reconstruction, which found one coordinate group
\* and two labels and gave the box the first label.
C27_Witness ==
    /\ ParseDone
    /\ json_output_str = TextProseLabelFirst
    /\ parse_out.path = "reconstruct"
    /\ Len(FindCoords(CleanedText, 1)) = 1
    /\ FindLabels(CleanedText, 1) = <<L_x, L_dog>>
    /\ Len(parse_out.v.l) = 1
    /\ parse_out.v.l[1].o[K_label] = Str(L_x)

(***************************************************************************)
(* Further properties of the client.                                       *)
(***************************************************************************)
\* this step is a call of generate_content_with_gemini (the environment is
\* left alone and the call's outcome is recorded)
ClientCallStep == api_key' = api_key /\ vlm_pc' = "done"

MissingKey(key) == key \in {"unset", "", "YOUR_GEMINI_API_KEY_HERE"}

\* what one call does to the cached client
SingletonStep ==
    ClientCallStep =>
        /\ gemini_client # "None"
              => /\ gemini_client' = gemini_client
                 /\ vlm_out'.path # "get_gemini_client"
        /\ (gemini_client = "None" /\ MissingKey(api_key))
              => /\ gemini_client' = "None"
                 /\ vlm_out'.raised = "ValueError"
                 /\ vlm_out'.path = "get_gemini_client"
        /\ (gemini_client = "None" /\ ~MissingKey(api_key) /\ vlm_in'.construct = "fails")
              => /\ gemini_client' = "None"
                 /\ vlm_out'.raised = "ConnectionError"
                 /\ vlm_out'.path = "get_gemini_client"
        /\ (gemini_client = "None" /\ ~MissingKey(api_key) /\ vlm_in'.construct = "ok")
              => /\ gemini_client' = Client(api_key)
                 /\ vlm_out'.path # "get_gemini_client"

\* a change of the environment does not touch the cached client
EnvironmentStep == api_key' # api_key => gemini_client' = gemini_client

\* C28. Client singleton: once a call has constructed the client, every
\* later call gets that same client, whatever the key in the environment
\* has become and whether or not a construction would now succeed; a call
\* that fails for a missing or placeholder key (ValueError) or a failing
\* constructor (ConnectionError) leaves the cached client unset, and the next
\* call with a key and a working constructor constructs it.
C28_ClientSingleton == [][SingletonStep /\ EnvironmentStep]_vars

\* C28 (witness): a call has just returned an answer through the client that
\* was constructed with another key than the environment now holds, and with
\* a constructor that would fail now.
C28_Witness ==
    /\ VlmDone
    /\ gemini_client = Client("key")
    /\ MissingKey(api_key)
    /\ vlm_in.construct = "fails"
    /\ vlm_out.raised = "none"
    /\ vlm_out.path = "response.text"

(***************************************************************************)
(* The temp directory over the runs.                                       *)
(***************************************************************************)
\* the run went past the checks of the upload and of the prompt
RunStarted == shown # <<>> /\ shown[1].key = "info_processing_images"

\* the paths of the files of the upload of this run
UploadedPaths ==
    IF uploaded_zip_file.kind = "zip"
    THEN {uploaded_zip_file.files[k].path : k \in DOMAIN uploaded_zip_file.files}
    ELSE {}

\* the removal failed and the warning was shown
WarnedOfCleanup ==
    \E m \in DOMAIN shown : shown[m].key = "cleanup_temp_dir_warning"

\* C29. Temp directory lifecycle: a run extracts into an empty directory, so
\* the files it finds are those of its own upload, and on every way out of
\* the run the directory is removed; no file of one run is there for the
\* next.
C29_TempDirLifecycle ==
    /\ run_pc \in {"loop", "summary"}
          => /\ \A k \in DOMAIN temp_dir.files : temp_dir.files[k].path \in UploadedPaths
             /\ \A k \in DOMAIN image_files : image_files[k] \in UploadedPaths
    /\ (run_pc = "done" /\ RunStarted) => ~temp_dir.exists

\* what holds of the cleanup as the code is: it is attempted before the
\* extraction and on every way out of a run, and where the directory or a
\* file of another run is still there the warning was shown
C29_RemovedOrWarned ==
    /\ (run_pc \in {"loop", "summary"}
          /\ \E k \in DOMAIN image_files : image_files[k] \notin UploadedPaths)
          => WarnedOfCleanup
    /\ (run_pc = "done" /\ RunStarted /\ temp_dir.exists) => WarnedOfCleanup

\* a run that started from no temp directory at all has classified an image
\* that an earlier run extracted: the upload of this run holds one text file
LeakFromEarlierRun ==
    /\ run_pc = "summary"
    /\ Len(uploaded_zip_file.files) = 1
    /\ ~IsImageFile(uploaded_zip_file.files[1])
    /\ Len(results_data) >= 1
    /\ results_data[1].image_name \notin UploadedPaths
    /\ results_data[1].image_name # 0

(***************************************************************************)
(* The accounting of the image loop.                                       *)
(***************************************************************************)
\* the place in image_files of the image a row is about
ImageOfRow(r) ==
    CHOOSE k \in DOMAIN image_files : image_files[k] = results_data[r].image_name

\* the row was appended by an except clause: it holds no image bytes
RowOfException(row) == row.image_bytes = "None"

\* the summary lines on the page
Summaries == {m \in DOMAIN shown : shown[m].key = "status_processed_summary"}

\* C30. Batch accounting: at every step of the image loop the number of
\* processed images is at most the number of rows, which is at most the
\* number of images started; the rows are in the order of the images, each
\* about an image of its own that was started; the processed images are
\* those of the rows that no exception wrote; and the summary reports that
\* number of processed images, leaving out the images whose row an exception
\* wrote, out of the number of all images found.
C30_BatchAccounting ==
    /\ Len(image_files_processed_paths) <= Len(results_data)
    /\ Len(results_data) <= loop_i
    /\ loop_i <= Len(image_files)
    /\ \A r \in DOMAIN results_data :
          /\ \E k \in 1..loop_i : image_files[k] = results_data[r].image_name
          /\ \A q \in DOMAIN results_data : q < r => ImageOfRow(q) < ImageOfRow(r)
    /\ image_files_processed_paths
         = [k \in 1..Len(image_files_processed_paths) |->
              SelectSeq(results_data, LAMBDA row : ~RowOfException(row))[k].image_name]
    /\ Len(SelectSeq(results_data, LAMBDA row : ~RowOfException(row)))
         = Len(image_files_processed_paths)
    /\ \A m \in Summaries :
          /\ shown[m].processed_count
               = Len(results_data) - Len(SelectSeq(results_data, RowOfException))
          /\ shown[m].total_images = Len(image_files)

\* C30 (witness): of three images the first and the third were answered and
\* the second was no image data; the run is over with three rows in the
\* order of the images, and the summary says two of three.
C30_Witness ==
    /\ run_pc = "done"
    /\ Len(image_files) = 3 /\ loop_i = 3
    /\ Len(results_data) = 3
    /\ ~RowOfException(results_data[1])
    /\ RowOfException(results_data[2])
    /\ ~RowOfException(results_data[3])
    /\ image_files_processed_paths = <<image_files[1], image_files[3]>>
    /\ \E m \in Summaries :
          shown[m].processed_count = 2 /\ shown[m].total_images = 3

====
